---- MODULE Spec2Model ----
(***************************************************************************)
(* A model of the fastblog backend: the article lifecycle                  *)
(* (services/article.rs), the engagement counters (services/engagement.rs  *)
(* and the bookmark handlers of handlers/articles.rs).  The relational     *)
(* store is modelled by its tables: articles, claps, bookmarks, comments.  *)
(* Each handler is one action; a single SQL statement is atomic.           *)
(***************************************************************************)
EXTENDS Integers, Sequences, FiniteSets, TLC

(* ------------------------------ bounds --------------------------------- *)
\* Number of article rows ever inserted (ids 1..MaxArticles, never reused).
MaxArticles == 3
\* Cap on the increment-only counters (views, reads, comment rows: MaxCount - 1;
\* accepted auto-saves of one draft: MaxCount).
MaxCount == 2
\* Last instant of the clock (NOW() ranges over 0..MaxClock).
MaxClock == 2

(* ------------------------------ values --------------------------------- *)
Users == {"u1", "u2"}
\* SQL NULL for a timestamp column / an absent Option<Uuid>.
NULL == -1
\* Option::None for a request field holding a string or an enum.
None == "none"
\* Option::None / SQL NULL for a title: a value that is no string of characters.
NoTitle == <<"(none)">>
\* An article id that names no row (a Uuid nobody ever minted).
MissingId == 0

Statuses == {"draft", "published", "unlisted", "archived"}

\* The tokio tasks that serve requests at the same time (one per connection).
Tasks == {"t1", "t2"}
\* A task that serves no request.
Idle == [pc |-> "idle"]
\* No listing query has been answered yet.
NoAnswer == [op |-> "none"]

\* The identifiers (client addresses) the rate limiter is asked about.
Clients == {"ip1", "ip2"}

\* The users table with the counts of the follow edges.
Counted(edges) ==
    [u \in Users |->
        [followers_count |-> Cardinality({e \in edges : e[2] = u}),
         following_count |-> Cardinality({e \in edges : e[1] = u})]]

VARIABLES
    articles,    \* table articles: id -> row
    nextId,      \* the next fresh article id (Uuid::new_v4)
    claps,       \* table claps: set of <<user_id, article_id>>
    bookmarks,   \* table bookmarks: set of <<user_id, article_id>>
    comments,    \* table comments: id -> row
    clock,       \* the instant NOW() / Utc::now() returns
    last,        \* the last call and what it returned to its caller
    origin,      \* history: article id -> the operation that inserted the row
    saves,       \* history: article id -> number of auto-save UPDATEs that matched the row
    pubOk,       \* history: article ids on which publish_article has succeeded
    calls,       \* the requests in flight: task -> the statement it is at and its locals
    follows,     \* table user_follows: set of <<follower_id, following_id>>
    answer,      \* what the last listing query (feed, trending, search) returned
    users,       \* table users: id -> followers_count and following_count
    requests,    \* RateLimiter.requests: identifier -> the instants of its admissions
    admitted     \* history: the calls check_rate_limit has answered true to, in order

vars == <<articles, nextId, claps, bookmarks, comments, clock, last, origin, saves, pubOk,
          calls, follows, answer, users, requests, admitted>>

\* CreateArticleRequest: #[validate(length(min = 1, max = 200))] on title.
MinTitleLen == 1
MaxTitleLen == 200
\* What CreateArticleRequest::validate() would accept for the title.  Neither
\* the create_article handler nor the service calls validate().
TitleValid(title) == Len(title) >= MinTitleLen /\ Len(title) <= MaxTitleLen

(* --------------------------- pure helpers ------------------------------ *)
\* char::to_lowercase on the characters the model uses.
ToLower(c) ==
    CASE c = "A" -> "a"
      [] c = "B" -> "b"
      [] c = "D" -> "d"
      [] OTHER -> c

Letters == {"a", "b", "d", "f", "r", "t", "A", "B", "D", "é"}
Digits == {"0", "1", "2", "3", "4", "5", "6", "7", "8", "9"}
\* char::is_alphanumeric is Unicode-aware: it accepts e-acute as well.
IsAlphanumeric(c) == c \in Letters \cup Digits
\* What the pattern [a-z0-9] accepts.
IsAsciiLowerOrDigit(c) == c \in {"a", "b", "d", "f", "r", "t"} \cup Digits

\* Regex -+ replaced by "-": a dash that follows a dash is dropped.
CollapseDashes(s) ==
    SelectSeq([i \in 1..Len(s) |-> <<s[i], i > 1 /\ s[i] = "-" /\ s[i - 1] = "-">>],
              LAMBDA p : ~p[2])

RECURSIVE TrimLeft(_)
TrimLeft(s) == IF s # <<>> /\ Head(s) = "-" THEN TrimLeft(Tail(s)) ELSE s

RECURSIVE TrimRight(_)
TrimRight(s) ==
    IF s # <<>> /\ s[Len(s)] = "-" THEN TrimRight(SubSeq(s, 1, Len(s) - 1)) ELSE s

\* ArticleService::generate_slug
generate_slug(title) ==
    LET lower    == [i \in 1..Len(title) |-> ToLower(title[i])]
        dashed   == [i \in 1..Len(lower) |-> IF lower[i] = " " THEN "-" ELSE lower[i]]
        filtered == SelectSeq(dashed, LAMBDA c : IsAlphanumeric(c) \/ c = "-")
        pairs    == CollapseDashes(filtered)
        single   == [i \in 1..Len(pairs) |-> pairs[i][1]]
    IN  TrimRight(TrimLeft(single))

DigitChar(d) ==
    CASE d = 0 -> "0" [] d = 1 -> "1" [] d = 2 -> "2" [] d = 3 -> "3" [] d = 4 -> "4"
      [] d = 5 -> "5" [] d = 6 -> "6" [] d = 7 -> "7" [] d = 8 -> "8" [] d = 9 -> "9"

\* Display of an i32 counter as decimal digits.
RECURSIVE Decimal(_)
Decimal(n) == IF n < 10 THEN <<DigitChar(n)>> ELSE Decimal(n \div 10) \o <<DigitChar(n % 10)>>

\* format!("{}-{}", base_slug, counter)
Suffixed(base, counter) == base \o <<"-">> \o Decimal(counter)

\* SELECT COUNT(*) FROM articles WHERE slug = $1
SlugCount(slug) == Cardinality({i \in DOMAIN articles : articles[i].slug = slug})

RECURSIVE SlugLoop(_, _, _)
SlugLoop(base, slug, counter) ==
    IF SlugCount(slug) = 0 THEN slug
    ELSE SlugLoop(base, Suffixed(base, counter), counter + 1)

\* A mutant of ensure_unique_slug: the suffix counter starts at 2.
ensure_unique_slug_from2(base_slug) == SlugLoop(base_slug, base_slug, 2)

\* A mutant of ensure_unique_slug: the existence check is skipped.
ensure_unique_slug_nocheck(base_slug) == base_slug

\* ArticleService::ensure_unique_slug with exclude_id = None
ensure_unique_slug(base_slug) == SlugLoop(base_slug, base_slug, 1)

\* ammonia::clean on the contents the model uses: the script element is removed.
sanitize_html(content) == IF content = "<script>x</script>hi" THEN "hi" ELSE content

(* --------------------------- responses --------------------------------- *)
\* What a call returned: ok / the error message class, a number and a flag.
\* The other fields are history.  pre_total, pre_flag: the counter and the
\* caller's personal state as the call found them.  twice: the call before was the
\* same call (same operation, article and user); first_total, first_flag: what
\* that earlier call had found.
Resp(op, user, id, ok, err, total, flag) ==
    [op |-> op, user |-> user, id |-> id, ok |-> ok, err |-> err, total |-> total,
     flag |-> flag, pre_total |-> 0, pre_flag |-> FALSE,
     twice |-> FALSE, first_total |-> 0, first_flag |-> FALSE]

\* The history fields of a clap_article call that found the counter at pre_total
\* and the caller's clap row present (pre_flag) or not.
WithHistory(resp, pre_total, pre_flag) ==
    LET twice == last.op = resp.op /\ last.id = resp.id /\ last.user = resp.user
    IN  [resp EXCEPT !.pre_total = pre_total, !.pre_flag = pre_flag, !.twice = twice,
                     !.first_total = IF twice THEN last.pre_total ELSE 0,
                     !.first_flag = IF twice THEN last.pre_flag ELSE FALSE]

NoCall == Resp("init", "u1", MissingId, TRUE, "", 0, FALSE)

Exists(id) == id \in DOMAIN articles

\* e.to_string().contains("not found"), on the errors the services return.
ContainsNotFound(err) ==
    err \in {"Article not found", "Article not found or unauthorized",
             "Article not found, unauthorized, or already published"}

\* e.to_string().contains("Unauthorized"): the match is case-sensitive.
ContainsUnauthorizedCapital(err) == err = "Unauthorized to update this article"

\* e.to_string().contains("unauthorized")
ContainsUnauthorized(err) ==
    err \in {"Article not found or unauthorized",
             "Article not found, unauthorized, or already published"}

\* The status code the update_article, delete_article and publish_article
\* handlers answer with, from the service's result.
HttpStatus(resp) ==
    IF resp.ok THEN 200
    ELSE IF resp.op = "update"
         THEN IF ContainsNotFound(resp.err) THEN 404
              ELSE IF ContainsUnauthorizedCapital(resp.err) THEN 403
              ELSE 500
         ELSE IF ContainsNotFound(resp.err) \/ ContainsUnauthorized(resp.err) THEN 404
              ELSE 500

\* What the caller is told: the status code and the "error" of the body.
Told(resp) == [status |-> HttpStatus(resp), error |-> resp.err]

(* ------------------------ ArticleService ------------------------------- *)
\* ArticleService::generate_excerpt(content_html, 200): the contents of the
\* model hold no tag once sanitized and are shorter than 200 characters, so
\* the trimmed text is returned whole.
generate_excerpt(content_html) == content_html

\* The row create_article inserts for a request that carries title, content
\* and status only.  Nullable columns are <<>> when NULL and <<value>>
\* otherwise; tags and categories are sequences.
NewRow(title, content, content_html, author_id, status, slug, published_at) ==
    [title |-> title, content |-> content, content_html |-> content_html,
     subtitle |-> <<>>, excerpt |-> <<generate_excerpt(content_html)>>,
     featured_image_url |-> <<>>, paywall_position |-> <<>>,
     tags |-> <<>>, categories |-> <<>>, is_member_only |-> FALSE,
     author_id |-> author_id, status |-> status, slug |-> slug,
     published_at |-> published_at, updated_at |-> clock, last_auto_save |-> clock,
     auto_save_version |-> 1, is_featured |-> FALSE,
     claps_count |-> 0, comments_count |-> 0, bookmarks_count |-> 0,
     views_count |-> 0, reads_count |-> 0]

\* A mutant of create_article: published_at is set whatever the status.
create_article_always_stamped(author_id, title, content, status) ==
    /\ articles' = articles @@ (nextId :>
           NewRow(title, content, sanitize_html(content), author_id,
                  IF status = None THEN "draft" ELSE status,
                  ensure_unique_slug(generate_slug(title)), clock))
    /\ nextId' = nextId + 1
    /\ origin' = origin @@ (nextId :> "create")
    /\ saves' = saves @@ (nextId :> 0)
    /\ last' = Resp("create", author_id, nextId, TRUE, "", 0, FALSE)
    /\ UNCHANGED <<claps, bookmarks, comments, clock, pubOk>>

\* A mutant of create_article: request.status is not read, every article starts
\* as a draft.
create_article_draft_only(author_id, title, content, status) ==
    /\ articles' = articles @@ (nextId :>
           NewRow(title, content, sanitize_html(content), author_id, "draft",
                  ensure_unique_slug(generate_slug(title)), NULL))
    /\ nextId' = nextId + 1
    /\ origin' = origin @@ (nextId :> "create")
    /\ saves' = saves @@ (nextId :> 0)
    /\ last' = Resp("create", author_id, nextId, TRUE, "", 0, FALSE)
    /\ UNCHANGED <<claps, bookmarks, comments, clock, pubOk>>

\* ArticleService::create_article
create_article(author_id, title, content, status) ==
    LET slug         == generate_slug(title)
        content_html == sanitize_html(content)
        unique_slug  == ensure_unique_slug(slug)
        st           == IF status = None THEN "draft" ELSE status
        published_at == IF st = "published" THEN clock ELSE NULL
    IN  /\ articles' = articles @@ (nextId :>
               NewRow(title, content, content_html, author_id, st, unique_slug, published_at))
        /\ nextId' = nextId + 1
        /\ origin' = origin @@ (nextId :> "create")
        /\ saves' = saves @@ (nextId :> 0)
        /\ last' = Resp("create", author_id, nextId, TRUE, "", 0, FALSE)
        /\ UNCHANGED <<claps, bookmarks, comments, clock, pubOk>>

\* ArticleService::auto_save_draft, request.article_id = None: a new draft is minted.
auto_save_new(author_id, title, content) ==
    LET slug == ensure_unique_slug(<<"d", "r", "a", "f", "t">>)
    IN  /\ articles' = articles @@ (nextId :>
               [NewRow(title, content, content, author_id, "draft", slug, NULL)
                   EXCEPT !.excerpt = <<>>])
        /\ nextId' = nextId + 1
        /\ origin' = origin @@ (nextId :> "autosave")
        /\ saves' = saves @@ (nextId :> 0)
        /\ last' = Resp("autosave", author_id, nextId, TRUE, "", 0, FALSE)
        /\ UNCHANGED <<claps, bookmarks, comments, clock, pubOk>>

\* ArticleService::get_article_by_id: the row is visible to its author and,
\* once published, to everyone.
Visible(article_id, user_id) ==
    /\ Exists(article_id)
    /\ \/ articles[article_id].status = "published"
       \/ articles[article_id].author_id = user_id

\* A mutant of update_article: the ownership check is dropped.
update_article_unchecked(article_id, author_id, title, content) ==
    /\ Exists(article_id)
    /\ articles' = [articles EXCEPT ![article_id].title = IF title = NoTitle THEN @ ELSE title,
                                     ![article_id].updated_at = clock]
    /\ last' = Resp("update", author_id, article_id, TRUE, "", 0, FALSE)
    /\ UNCHANGED <<nextId, claps, bookmarks, comments, clock, origin, saves, pubOk>>

\* ArticleService::update_article.  title and content are the Option fields of
\* UpdateArticleRequest the body reads.
update_article(article_id, author_id, title, content) ==
    LET owned    == Exists(article_id) /\ articles[article_id].author_id = author_id
        titled   == IF title = NoTitle THEN articles
                    ELSE [articles EXCEPT ![article_id].title = title,
                                          ![article_id].updated_at = clock]
        written  == IF content = None THEN titled
                    ELSE [titled EXCEPT ![article_id].content = content,
                                        ![article_id].content_html = sanitize_html(content),
                                        ![article_id].updated_at = clock]
    IN  /\ IF ~Exists(article_id)
           THEN /\ articles' = articles
                /\ last' = Resp("update", author_id, article_id, FALSE,
                                 "Article not found", 0, FALSE)
           ELSE IF ~owned
           THEN /\ articles' = articles
                /\ last' = Resp("update", author_id, article_id, FALSE,
                                 "Unauthorized to update this article", 0, FALSE)
           ELSE /\ articles' = written
                /\ last' = Resp("update", author_id, article_id, TRUE, "", 0, FALSE)
        /\ UNCHANGED <<nextId, claps, bookmarks, comments, clock, origin, saves, pubOk>>

\* The table without the row of article_id.
WithoutRow(article_id) == [i \in DOMAIN articles \ {article_id} |-> articles[i]]

\* A mutant of delete_article: the caller is told whether the article is
\* absent or owned by someone else.
delete_article_telling(article_id, author_id) ==
    /\ IF ~Exists(article_id)
       THEN /\ articles' = articles
            /\ last' = Resp("delete", author_id, article_id, FALSE,
                             "Article not found", 0, FALSE)
       ELSE IF articles[article_id].author_id # author_id
       THEN /\ articles' = articles
            /\ last' = Resp("delete", author_id, article_id, FALSE,
                             "Unauthorized to delete this article", 0, FALSE)
       ELSE /\ articles' = WithoutRow(article_id)
            /\ last' = Resp("delete", author_id, article_id, TRUE, "", 0, FALSE)
    /\ UNCHANGED <<nextId, claps, bookmarks, comments, clock, origin, saves, pubOk>>

\* A mutant of delete_article: the row is deleted by id alone.
delete_article_unchecked(article_id, author_id) ==
    /\ articles' = WithoutRow(article_id)
    /\ last' = Resp("delete", author_id, article_id, Exists(article_id),
                     IF Exists(article_id) THEN "" ELSE "Article not found or unauthorized",
                     0, FALSE)
    /\ UNCHANGED <<nextId, claps, bookmarks, comments, clock, origin, saves, pubOk>>

\* ArticleService::delete_article
delete_article(article_id, author_id) ==
    LET rows_affected == IF Exists(article_id) /\ articles[article_id].author_id = author_id
                         THEN 1 ELSE 0
    IN  /\ IF rows_affected = 0
           THEN /\ articles' = articles
                /\ last' = Resp("delete", author_id, article_id, FALSE,
                                 "Article not found or unauthorized", 0, FALSE)
           ELSE /\ articles' = WithoutRow(article_id)
                /\ last' = Resp("delete", author_id, article_id, TRUE, "", 0, FALSE)
        /\ UNCHANGED <<nextId, claps, bookmarks, comments, clock, origin, saves, pubOk>>

\* The history fields of a publish_article call: the published_at it found and
\* whether an earlier publish_article call on the article had succeeded.
PublishHistory(resp) ==
    WithHistory(resp,
                IF Exists(resp.id) THEN articles[resp.id].published_at ELSE NULL,
                resp.id \in pubOk)

\* A mutant of publish_article: the UPDATE has no status = 'draft' condition.
publish_article_any_status(article_id, author_id) ==
    LET rows_affected == IF Exists(article_id) /\ articles[article_id].author_id = author_id
                         THEN 1 ELSE 0
    IN  /\ IF rows_affected = 0
           THEN /\ UNCHANGED <<articles, pubOk>>
                /\ last' = PublishHistory(Resp("publish", author_id, article_id, FALSE,
                                 "Article not found, unauthorized, or already published",
                                 0, FALSE))
           ELSE /\ articles' = [articles EXCEPT ![article_id].status = "published",
                                                 ![article_id].published_at = clock,
                                                 ![article_id].updated_at = clock]
                /\ pubOk' = pubOk \cup {article_id}
                /\ last' = PublishHistory(Resp("publish", author_id, article_id, TRUE, "",
                                                0, FALSE))
        /\ UNCHANGED <<nextId, claps, bookmarks, comments, clock, origin, saves>>

\* ArticleService::publish_article
publish_article(article_id, author_id) ==
    LET rows_affected == IF /\ Exists(article_id)
                            /\ articles[article_id].author_id = author_id
                            /\ articles[article_id].status = "draft"
                         THEN 1 ELSE 0
    IN  /\ IF rows_affected = 0
           THEN /\ UNCHANGED <<articles, pubOk>>
                /\ last' = PublishHistory(Resp("publish", author_id, article_id, FALSE,
                                 "Article not found, unauthorized, or already published",
                                 0, FALSE))
           ELSE /\ articles' = [articles EXCEPT ![article_id].status = "published",
                                                 ![article_id].published_at = clock,
                                                 ![article_id].updated_at = clock]
                /\ pubOk' = pubOk \cup {article_id}
                /\ last' = PublishHistory(Resp("publish", author_id, article_id, TRUE, "",
                                                0, FALSE))
        /\ UNCHANGED <<nextId, claps, bookmarks, comments, clock, origin, saves>>

\* The row an auto-save UPDATE writes over row r for a request that carries
\* content and possibly a title: title, tags, categories and is_member_only
\* are COALESCEd with the stored value, while subtitle, excerpt,
\* featured_image_url and paywall_position are assigned the absent ($2, $4,
\* $5, $9 NULL) request value.
AutoSaved(r, title, content, version) ==
    [r EXCEPT !.title = IF title = NoTitle THEN @ ELSE title,
              !.subtitle = <<>>,
              !.content = content,
              !.content_html = content,
              !.excerpt = <<>>,
              !.featured_image_url = <<>>,
              !.paywall_position = <<>>,
              !.updated_at = clock,
              !.last_auto_save = clock,
              !.auto_save_version = version]

\* A mutant of auto_save_draft: the version is written from a value read
\* earlier (here: reset to 1) instead of incremented in the UPDATE.
auto_save_draft_reset(author_id, article_id, title, content) ==
    LET matched == /\ Exists(article_id)
                   /\ articles[article_id].author_id = author_id
                   /\ articles[article_id].status = "draft"
    IN  /\ articles' = IF matched
                       THEN [articles EXCEPT ![article_id] = AutoSaved(@, title, content, 1)]
                       ELSE articles
        /\ saves' = IF matched THEN [saves EXCEPT ![article_id] = @ + 1] ELSE saves
        /\ last' = WithHistory(Resp("autosave", author_id, article_id, TRUE, "", 0, FALSE),
                                0, matched)
        /\ UNCHANGED <<nextId, claps, bookmarks, comments, clock, origin, pubOk>>

\* ArticleService::auto_save_draft, request.article_id = Some(article_id): one
\* UPDATE ... WHERE id AND author_id AND status = 'draft'; Ok(article_id) is
\* returned whatever the number of rows it matched.
auto_save_draft(author_id, article_id, title, content) ==
    LET matched == /\ Exists(article_id)
                   /\ articles[article_id].author_id = author_id
                   /\ articles[article_id].status = "draft"
    IN  /\ articles' = IF matched
                       THEN [articles EXCEPT ![article_id] =
                                AutoSaved(@, title, content, @.auto_save_version + 1)]
                       ELSE articles
        /\ saves' = IF matched THEN [saves EXCEPT ![article_id] = @ + 1] ELSE saves
        /\ last' = WithHistory(Resp("autosave", author_id, article_id, TRUE, "", 0, FALSE),
                                0, matched)
        /\ UNCHANGED <<nextId, claps, bookmarks, comments, clock, origin, pubOk>>

\* Time passes between two calls.
Tick ==
    /\ clock < MaxClock
    /\ clock' = clock + 1
    /\ UNCHANGED <<articles, nextId, claps, bookmarks, comments, last, origin, saves, pubOk,
                   calls, follows, answer, users, requests, admitted>>

(* ----------------------- EngagementService ----------------------------- *)
\* SELECT COUNT(*)::BIGINT FROM claps WHERE article_id = $1, over a claps table.
ClapRows(table, article_id) == Cardinality({c \in table : c[2] = article_id})

SetClapsCount(article_id, n) ==
    IF Exists(article_id)
    THEN [articles EXCEPT ![article_id].claps_count = n]
    ELSE articles

\* A mutant of clap_article: the counter is moved by +1 / -1 from the stored
\* value and a second clap of the same user adds another one.
clap_article_increment(article_id, user_id, clap_count) ==
    /\ claps' = claps \cup {<<user_id, article_id>>}
    /\ articles' = SetClapsCount(article_id, articles[article_id].claps_count + 1)
    /\ last' = WithHistory(Resp("clap", user_id, article_id, TRUE, "",
                                 articles[article_id].claps_count + 1, TRUE),
                            articles[article_id].claps_count,
                            <<user_id, article_id>> \in claps)
    /\ UNCHANGED <<nextId, bookmarks, comments, clock, origin, saves, pubOk>>

\* A mutant of clap_article: the requested magnitude is stored, and the counter
\* is the sum of the magnitudes instead of the number of rows.
clap_article_magnitude(article_id, user_id, clap_count) ==
    LET existing    == <<user_id, article_id>> \in claps
        table       == IF existing THEN claps \ {<<user_id, article_id>>}
                                   ELSE claps \cup {<<user_id, article_id>>}
        is_clapped  == ~existing
        total_claps == IF existing THEN ClapRows(table, article_id)
                                   ELSE ClapRows(table, article_id) + clap_count - 1
    IN  /\ claps' = table
        /\ articles' = SetClapsCount(article_id, total_claps)
        /\ last' = WithHistory(Resp("clap", user_id, article_id, TRUE, "", total_claps,
                                     is_clapped),
                                articles[article_id].claps_count, existing)
        /\ UNCHANGED <<nextId, bookmarks, comments, clock, origin, saves, pubOk>>

\* EngagementService::clap_article.  clap_count is the requested magnitude
\* (ClapRequest.clap_count), which the body never reads.
clap_article(article_id, user_id, clap_count) ==
    LET existing    == <<user_id, article_id>> \in claps
        table       == IF existing THEN claps \ {<<user_id, article_id>>}
                                   ELSE claps \cup {<<user_id, article_id>>}
        is_clapped  == ~existing
        total_claps == ClapRows(table, article_id)
    IN  /\ claps' = table
        /\ articles' = SetClapsCount(article_id, total_claps)
        /\ last' = WithHistory(Resp("clap", user_id, article_id, TRUE, "", total_claps,
                                     is_clapped),
                                articles[article_id].claps_count, existing)
        /\ UNCHANGED <<nextId, bookmarks, comments, clock, origin, saves, pubOk>>

\* A mutant of bookmark_article: the already-bookmarked test is dropped, so a
\* repeated bookmark counts again.
bookmark_article_again(article_id, user_id) ==
    LET article_exists == Exists(article_id) /\ articles[article_id].status = "published"
    IN  /\ IF ~article_exists
           THEN /\ last' = Resp("bookmark", user_id, article_id, FALSE,
                                 "Article not found", 0, FALSE)
                /\ UNCHANGED <<articles, bookmarks>>
           ELSE /\ bookmarks' = bookmarks \cup {<<user_id, article_id>>}
                /\ articles' = [articles EXCEPT ![article_id].bookmarks_count = @ + 1]
                /\ last' = Resp("bookmark", user_id, article_id, TRUE,
                                 "Article bookmarked successfully", 0, TRUE)
        /\ UNCHANGED <<nextId, claps, comments, clock, origin, saves, pubOk>>

\* handlers::articles::bookmark_article
bookmark_article(article_id, user_id) ==
    LET article_exists     == Exists(article_id) /\ articles[article_id].status = "published"
        already_bookmarked == <<user_id, article_id>> \in bookmarks
    IN  /\ IF ~article_exists
           THEN /\ last' = Resp("bookmark", user_id, article_id, FALSE,
                                 "Article not found", 0, FALSE)
                /\ UNCHANGED <<articles, bookmarks>>
           ELSE IF already_bookmarked
           THEN /\ last' = Resp("bookmark", user_id, article_id, TRUE,
                                 "Article already bookmarked", 0, TRUE)
                /\ UNCHANGED <<articles, bookmarks>>
           ELSE /\ bookmarks' = bookmarks \cup {<<user_id, article_id>>}
                /\ articles' = [articles EXCEPT ![article_id].bookmarks_count = @ + 1]
                /\ last' = Resp("bookmark", user_id, article_id, TRUE,
                                 "Article bookmarked successfully", 0, TRUE)
        /\ UNCHANGED <<nextId, claps, comments, clock, origin, saves, pubOk>>

Greatest(a, b) == IF a >= b THEN a ELSE b

\* A mutant of unbookmark_article: the counter is decremented whether or not a
\* row was removed, and without the floor.
unbookmark_article_blind(article_id, user_id) ==
    /\ bookmarks' = bookmarks \ {<<user_id, article_id>>}
    /\ articles' = IF Exists(article_id)
                   THEN [articles EXCEPT ![article_id].bookmarks_count = @ - 1]
                   ELSE articles
    /\ last' = Resp("unbookmark", user_id, article_id, TRUE, "Bookmark removed successfully",
                     0, FALSE)
    /\ UNCHANGED <<nextId, claps, comments, clock, origin, saves, pubOk>>

\* handlers::articles::unbookmark_article
unbookmark_article(article_id, user_id) ==
    LET rows_affected == IF <<user_id, article_id>> \in bookmarks THEN 1 ELSE 0
    IN  /\ bookmarks' = bookmarks \ {<<user_id, article_id>>}
        /\ IF rows_affected > 0
           THEN /\ articles' = IF Exists(article_id)
                               THEN [articles EXCEPT ![article_id].bookmarks_count =
                                                         Greatest(@ - 1, 0)]
                               ELSE articles
                /\ last' = Resp("unbookmark", user_id, article_id, TRUE,
                                 "Bookmark removed successfully", rows_affected, FALSE)
           ELSE /\ articles' = articles
                /\ last' = Resp("unbookmark", user_id, article_id, TRUE,
                                 "Bookmark not found", rows_affected, FALSE)
        /\ UNCHANGED <<nextId, claps, comments, clock, origin, saves, pubOk>>

\* A mutant of create_comment: the article is not looked up, the comment is
\* inserted and the parent's replies_count raised whatever the article id.
create_comment_unchecked(article_id, user_id, parent_id) ==
    LET comment_id == Len(comments) + 1
        inserted   == Append(comments,
                             [article_id |-> article_id, user_id |-> user_id,
                              parent_id |-> parent_id, replies_count |-> 0,
                              is_author_reply |-> FALSE])
    IN  /\ comments' = IF parent_id # NULL /\ parent_id \in DOMAIN comments
                       THEN [inserted EXCEPT ![parent_id].replies_count = @ + 1]
                       ELSE inserted
        /\ articles' = IF Exists(article_id)
                       THEN [articles EXCEPT ![article_id].comments_count = @ + 1]
                       ELSE articles
        /\ last' = Resp("comment", user_id, article_id, TRUE, "", comment_id, FALSE)
        /\ UNCHANGED <<nextId, claps, bookmarks, clock, origin, saves, pubOk>>

\* EngagementService::create_comment.  parent_id is NULL or a comment id.
create_comment(article_id, user_id, parent_id) ==
    IF ~Exists(article_id)
    THEN /\ last' = Resp("comment", user_id, article_id, FALSE, "Article not found", 0, FALSE)
         /\ UNCHANGED <<articles, nextId, claps, bookmarks, comments, clock, origin,
                        saves, pubOk>>
    ELSE LET comment_id      == Len(comments) + 1
             is_author_reply == /\ parent_id # NULL
                                /\ parent_id \in DOMAIN comments
                                /\ comments[parent_id].user_id = articles[article_id].author_id
             inserted        == Append(comments,
                                    [article_id |-> article_id, user_id |-> user_id,
                                     parent_id |-> parent_id, replies_count |-> 0,
                                     is_author_reply |-> is_author_reply])
         IN  /\ comments' = IF parent_id # NULL /\ parent_id \in DOMAIN comments
                            THEN [inserted EXCEPT ![parent_id].replies_count = @ + 1]
                            ELSE inserted
             /\ articles' = [articles EXCEPT ![article_id].comments_count = @ + 1]
             /\ last' = Resp("comment", user_id, article_id, TRUE, "", comment_id,
                              is_author_reply)
             /\ UNCHANGED <<nextId, claps, bookmarks, clock, origin, saves, pubOk>>

\* A mutant of record_view: a view is counted once only.
record_view_once(article_id) ==
    /\ articles' = IF Exists(article_id) /\ articles[article_id].views_count = 0
                   THEN [articles EXCEPT ![article_id].views_count = @ + 1]
                   ELSE articles
    /\ last' = Resp("view", "u1", article_id, TRUE, "", 0, FALSE)
    /\ UNCHANGED <<nextId, claps, bookmarks, comments, clock, origin, saves, pubOk>>

\* ArticleService::record_view
record_view(article_id) ==
    /\ articles' = IF Exists(article_id)
                   THEN [articles EXCEPT ![article_id].views_count = @ + 1]
                   ELSE articles
    /\ last' = Resp("view", "u1", article_id, TRUE, "", 0, FALSE)
    /\ UNCHANGED <<nextId, claps, bookmarks, comments, clock, origin, saves, pubOk>>

\* ArticleService::record_read
record_read(article_id) ==
    /\ articles' = IF Exists(article_id)
                   THEN [articles EXCEPT ![article_id].reads_count = @ + 1]
                   ELSE articles
    /\ last' = Resp("read", "u1", article_id, TRUE, "", 0, FALSE)
    /\ UNCHANGED <<nextId, claps, bookmarks, comments, clock, origin, saves, pubOk>>

(* ------------------------------ Init ----------------------------------- *)
\* A mutant of toggle_featured: featuring an article also lists it as
\* published.
toggle_featured_publishing(article_id, user_id) ==
    /\ IF ~Exists(article_id)
       THEN /\ articles' = articles
            /\ last' = Resp("featured", user_id, article_id, FALSE,
                             "Failed to toggle featured status", 0, FALSE)
       ELSE /\ articles' = [articles EXCEPT
                               ![article_id].is_featured = ~articles[article_id].is_featured,
                               ![article_id].status = "published",
                               ![article_id].updated_at = clock]
            /\ last' = Resp("featured", user_id, article_id, TRUE, "", 0,
                             ~articles[article_id].is_featured)
    /\ UNCHANGED <<nextId, claps, bookmarks, comments, clock, origin, saves, pubOk>>

\* ArticleService::toggle_featured behind handlers::articles::toggle_featured:
\* fetch_one fails on a missing row (500); any authenticated user may toggle.
toggle_featured(article_id, user_id) ==
    /\ IF ~Exists(article_id)
       THEN /\ articles' = articles
            /\ last' = Resp("featured", user_id, article_id, FALSE,
                             "Failed to toggle featured status", 0, FALSE)
       ELSE /\ articles' = [articles EXCEPT
                               ![article_id].is_featured = ~articles[article_id].is_featured,
                               ![article_id].updated_at = clock]
            /\ last' = Resp("featured", user_id, article_id, TRUE, "", 0,
                             ~articles[article_id].is_featured)
    /\ UNCHANGED <<nextId, claps, bookmarks, comments, clock, origin, saves, pubOk>>

Init ==
    /\ articles = <<>>
    /\ nextId = 1
    /\ claps = {}
    /\ bookmarks = {}
    /\ comments = <<>>
    /\ clock = 0
    /\ last = NoCall
    /\ origin = <<>>
    /\ saves = <<>>
    /\ pubOk = {}
    /\ calls = [t \in Tasks |-> Idle]
    /\ follows = {}
    /\ users = Counted({})
    /\ requests = [ip \in Clients |-> <<>>]
    /\ admitted = <<>>
    /\ answer = NoAnswer

(* ------------------- slug allocation: create and auto-save ------------- *)
\* Titles the callers submit, as sequences of characters.
SlugTitles ==
    { <<"a">>,                       \* base a
      <<"A", " ", "1">>,             \* base a-1: collides with the second a
      <<" ", "a", " ", " ", "b", "!", "-">>,  \* base a-b
      <<"!">>,                       \* nothing survives the filter
      <<"é">>,                      \* a non-ASCII letter
      <<>>,                          \* the empty title, below the bound of 1 character
      <<"D", "r", "a", "f", "t">> }

SlugCreate ==
    /\ UNCHANGED <<calls, follows, answer, users, requests, admitted>>
    /\ nextId <= MaxArticles
    /\ \E t \in SlugTitles : create_article("u1", t, "hi", None)

SlugAutoSave ==
    /\ UNCHANGED <<calls, follows, answer, users, requests, admitted>>
    /\ nextId <= MaxArticles
    /\ auto_save_new("u1", NoTitle, "hi")

NextSlug == SlugCreate \/ SlugAutoSave

SpecSlug == Init /\ [][NextSlug]_vars

(* --------------- engagement: claps, bookmarks, comments, views --------- *)
\* Ids a caller can name: the stored articles and one id that names no row.
AnyId == DOMAIN articles \cup {MissingId}
\* Requested clap magnitudes (ClapRequest.clap_count, validated range 1..50).
Magnitudes == {1, 50}

\* Claps are studied on up to MaxArticles - 1 articles.
ClapCreate ==
    /\ UNCHANGED <<calls, follows, answer, users, requests, admitted>>
    /\ nextId <= MaxArticles - 1
    /\ \E u \in Users, st \in {"draft", "published"} :
          create_article(u, <<"a">>, "hi", st)

\* The counters are studied on one article: a call on one article writes no
\* row of another.
EngageCreate ==
    /\ UNCHANGED <<calls, follows, answer, users, requests, admitted>>
    /\ nextId = 1
    /\ \E u \in Users, st \in {"draft", "published"} :
          create_article(u, <<"a">>, "hi", st)

\* The claps table references the article; callers clap stored articles.
EngageClap ==
    /\ UNCHANGED <<calls, follows, answer, users, requests, admitted>>
    /\ \E a \in DOMAIN articles, u \in Users, m \in Magnitudes : clap_article(a, u, m)

EngageBookmark ==
    /\ UNCHANGED <<calls, follows, answer, users, requests, admitted>>
    /\ \E a \in AnyId, u \in Users : bookmark_article(a, u)

EngageUnbookmark ==
    /\ UNCHANGED <<calls, follows, answer, users, requests, admitted>>
    /\ \E a \in AnyId, u \in Users : unbookmark_article(a, u)

EngageComment ==
    /\ UNCHANGED <<calls, follows, answer, users, requests, admitted>>
    /\ \E a \in AnyId, u \in Users, p \in {NULL} \cup DOMAIN comments :
          /\ Exists(a) => Len(comments) < MaxCount - 1
          /\ create_comment(a, u, p)

\* The service method is called directly: the handler behind POST /:article_id/view
\* answers without calling it, so through the routes views_count stays 0.
EngageView ==
    /\ UNCHANGED <<calls, follows, answer, users, requests, admitted>>
    /\ \E a \in AnyId :
          /\ Exists(a) => articles[a].views_count < MaxCount - 1
          /\ record_view(a)

EngageRead ==
    /\ UNCHANGED <<calls, follows, answer, users, requests, admitted>>
    /\ \E a \in AnyId :
          /\ Exists(a) => articles[a].reads_count < MaxCount - 1
          /\ record_read(a)

NextClap == ClapCreate \/ EngageClap

SpecClap == Init /\ [][NextClap]_vars

NextEngage ==
    \/ EngageCreate
    \/ EngageClap
    \/ EngageBookmark
    \/ EngageUnbookmark
    \/ EngageComment
    \/ EngageView
    \/ EngageRead

SpecEngage == Init /\ [][NextEngage]_vars

(* ------------- lifecycle: create, auto-save, update, publish, delete --- *)
\* The lifecycle is studied on one article: no lifecycle call on an article
\* reads or writes the row of another, the slug lookup apart.
LifeCreate ==
    /\ UNCHANGED <<calls, follows, answer, users, requests, admitted>>
    /\ nextId = 1
    /\ \E u \in Users, st \in Statuses \cup {None} : create_article(u, <<"a">>, "hi", st)

LifeAutoSaveNew ==
    /\ UNCHANGED <<calls, follows, answer, users, requests, admitted>>
    /\ nextId = 1
    /\ \E u \in Users : auto_save_new(u, <<"a">>, "hi")

LifeAutoSave ==
    /\ UNCHANGED <<calls, follows, answer, users, requests, admitted>>
    /\ \E a \in AnyId, u \in Users :
          /\ (Exists(a) /\ articles[a].author_id = u /\ articles[a].status = "draft")
                => articles[a].auto_save_version < 1 + MaxCount
          /\ auto_save_draft(u, a, NoTitle, "<script>x</script>hi")

LifeUpdate ==
    /\ UNCHANGED <<calls, follows, answer, users, requests, admitted>>
    /\ \E a \in AnyId, u \in Users :
          \/ update_article(a, u, <<"b">>, None)
          \/ update_article(a, u, NoTitle, "<script>x</script>hi")

LifePublish ==
    /\ UNCHANGED <<calls, follows, answer, users, requests, admitted>>
    /\ \E a \in AnyId, u \in Users : publish_article(a, u)

LifeDelete ==
    /\ UNCHANGED <<calls, follows, answer, users, requests, admitted>>
    /\ \E a \in AnyId, u \in Users : delete_article(a, u)

NextLife ==
    \/ LifeCreate
    \/ LifeAutoSaveNew
    \/ LifeAutoSave
    \/ LifeUpdate
    \/ LifePublish
    \/ LifeDelete
    \/ Tick

SpecLife == Init /\ [][NextLife]_vars

(* ------------- create_comment, statement by statement ------------------ *)
\* create_comment sends its statements to the pool one by one, outside any
\* transaction: each is a step of the task serving the request, and the steps of
\* two tasks interleave.
CommentFrame ==
    UNCHANGED <<nextId, claps, bookmarks, clock, origin, saves, pubOk,
                follows, answer, users, requests, admitted>>

InFlight == {t \in Tasks : calls[t].pc # "idle"}

\* The article the comments are written on.
CommentCreate ==
    /\ UNCHANGED <<calls, follows, answer, users, requests, admitted>>
    /\ nextId = 1
    /\ \E u \in Users : create_article(u, <<"a">>, "hi", "published")

\* handlers::articles::create_comment: a request arrives at an idle task.
CommentBegin ==
    \E t \in Tasks, a \in AnyId, u \in Users, p \in {NULL} \cup DOMAIN comments :
       /\ calls[t] = Idle
       /\ Len(comments) + Cardinality(InFlight) < MaxCount
       /\ calls' = [calls EXCEPT ![t] =
              [pc |-> "select_article", article_id |-> a, user_id |-> u, parent_id |-> p,
               author_id |-> None, is_author_reply |-> FALSE, comment_id |-> NULL]]
       /\ UNCHANGED <<articles, comments, last>>
       /\ CommentFrame

\* SELECT author_id FROM articles WHERE id = $1, and ok_or_else "Article not found".
CommentSelectArticle ==
    \E t \in Tasks :
       /\ calls[t].pc = "select_article"
       /\ IF Exists(calls[t].article_id)
          THEN /\ calls' = [calls EXCEPT
                               ![t].author_id = articles[calls[t].article_id].author_id,
                               ![t].pc = IF calls[t].parent_id # NULL THEN "select_parent"
                                                                        ELSE "insert"]
               /\ UNCHANGED last
          ELSE /\ calls' = [calls EXCEPT ![t] = Idle]
               /\ last' = Resp("comment", calls[t].user_id, calls[t].article_id, FALSE,
                                "Article not found", 0, FALSE)
       /\ UNCHANGED <<articles, comments>>
       /\ CommentFrame

\* SELECT user_id FROM comments WHERE id = $1 (the parent), for is_author_reply.
CommentSelectParent ==
    \E t \in Tasks :
       /\ calls[t].pc = "select_parent"
       /\ calls' = [calls EXCEPT
                       ![t].is_author_reply =
                           /\ calls[t].parent_id \in DOMAIN comments
                           /\ comments[calls[t].parent_id].user_id = calls[t].author_id,
                       ![t].pc = "insert"]
       /\ UNCHANGED <<articles, comments, last>>
       /\ CommentFrame

\* INSERT INTO comments (...)
CommentInsert ==
    \E t \in Tasks :
       /\ calls[t].pc = "insert"
       /\ comments' = Append(comments,
              [article_id |-> calls[t].article_id, user_id |-> calls[t].user_id,
               parent_id |-> calls[t].parent_id, replies_count |-> 0,
               is_author_reply |-> calls[t].is_author_reply])
       /\ calls' = [calls EXCEPT
                       ![t].comment_id = Len(comments) + 1,
                       ![t].pc = IF calls[t].parent_id # NULL THEN "update_parent"
                                                                ELSE "update_article"]
       /\ UNCHANGED <<articles, last>>
       /\ CommentFrame

\* UPDATE comments SET replies_count = replies_count + 1 WHERE id = $1
CommentUpdateParent ==
    \E t \in Tasks :
       /\ calls[t].pc = "update_parent"
       /\ comments' = IF calls[t].parent_id \in DOMAIN comments
                      THEN [comments EXCEPT ![calls[t].parent_id].replies_count = @ + 1]
                      ELSE comments
       /\ calls' = [calls EXCEPT ![t].pc = "update_article"]
       /\ UNCHANGED <<articles, last>>
       /\ CommentFrame

\* UPDATE articles SET comments_count = comments_count + 1 WHERE id = $1
CommentUpdateArticle ==
    \E t \in Tasks :
       /\ calls[t].pc = "update_article"
       /\ articles' = IF Exists(calls[t].article_id)
                      THEN [articles EXCEPT ![calls[t].article_id].comments_count = @ + 1]
                      ELSE articles
       /\ calls' = [calls EXCEPT ![t].pc = "select_user"]
       /\ UNCHANGED <<comments, last>>
       /\ CommentFrame

\* SELECT ... FROM users WHERE id = $1, and Ok(CommentResponse { .. }).
CommentSelectUser ==
    \E t \in Tasks :
       /\ calls[t].pc = "select_user"
       /\ last' = Resp("comment", calls[t].user_id, calls[t].article_id, TRUE, "",
                        calls[t].comment_id, calls[t].is_author_reply)
       /\ calls' = [calls EXCEPT ![t] = Idle]
       /\ UNCHANGED <<articles, comments>>
       /\ CommentFrame

\* The statement the task is at returns a sqlx error (the pool times out, the
\* connection drops): `.await?` returns it to the handler, which answers 500.
\* Nothing the earlier statements wrote is undone.
CommentStatementFails ==
    \E t \in Tasks :
       /\ calls[t].pc \in {"select_article", "select_parent", "insert", "update_parent",
                           "update_article", "select_user"}
       /\ last' = Resp("comment", calls[t].user_id, calls[t].article_id, FALSE,
                        "database error", 0, FALSE)
       /\ calls' = [calls EXCEPT ![t] = Idle]
       /\ UNCHANGED <<articles, comments>>
       /\ CommentFrame

NextComment ==
    \/ CommentCreate
    \/ CommentBegin
    \/ CommentSelectArticle
    \/ CommentSelectParent
    \/ CommentInsert
    \/ CommentUpdateParent
    \/ CommentUpdateArticle
    \/ CommentSelectUser
    \/ CommentStatementFails

SpecComment == Init /\ [][NextComment]_vars

(* --------------- clap_article, statement by statement ------------------ *)
\* clap_article sends four statements to the pool, outside any transaction.
ClapFrame ==
    UNCHANGED <<nextId, bookmarks, comments, clock, origin, saves, pubOk,
                follows, answer, users, requests, admitted>>

\* The storage layer keeps (user_id, article_id) unique in claps: an INSERT of a
\* pair that is stored is refused with an error.
ClapsUniqueViolated(user_id, article_id) == <<user_id, article_id>> \in claps

\* The article the claps are given to.
RaceCreate ==
    /\ UNCHANGED <<calls, follows, answer, users, requests, admitted>>
    /\ nextId = 1
    /\ create_article("u1", <<"a">>, "hi", "published")

ClapCall(user_id, article_id) ==
    [pc |-> "select_clap", article_id |-> article_id, user_id |-> user_id,
     existing |-> FALSE, is_clapped |-> FALSE, total_claps |-> 0]

\* handlers::articles::clap_article: each task serves a user of its own.
ClapBeginOwn ==
    \E t \in Tasks, a \in DOMAIN articles :
       /\ calls[t] = Idle
       /\ calls' = [calls EXCEPT ![t] = ClapCall(IF t = "t1" THEN "u1" ELSE "u2", a)]
       /\ UNCHANGED <<articles, claps, last>>
       /\ ClapFrame

\* handlers::articles::clap_article: both tasks serve requests of one user.
ClapBeginSame ==
    \E t \in Tasks, a \in DOMAIN articles :
       /\ calls[t] = Idle
       /\ calls' = [calls EXCEPT ![t] = ClapCall("u2", a)]
       /\ UNCHANGED <<articles, claps, last>>
       /\ ClapFrame

\* SELECT clap_count FROM claps WHERE user_id = $1 AND article_id = $2
ClapSelect ==
    \E t \in Tasks :
       /\ calls[t].pc = "select_clap"
       /\ LET existing == <<calls[t].user_id, calls[t].article_id>> \in claps
          IN  calls' = [calls EXCEPT ![t].existing = existing,
                                     ![t].pc = IF existing THEN "delete_clap"
                                                           ELSE "insert_clap"]
       /\ UNCHANGED <<articles, claps, last>>
       /\ ClapFrame

\* DELETE FROM claps WHERE user_id = $1 AND article_id = $2
ClapDelete ==
    \E t \in Tasks :
       /\ calls[t].pc = "delete_clap"
       /\ claps' = claps \ {<<calls[t].user_id, calls[t].article_id>>}
       /\ calls' = [calls EXCEPT ![t].is_clapped = FALSE, ![t].pc = "count_claps"]
       /\ UNCHANGED <<articles, last>>
       /\ ClapFrame

\* INSERT INTO claps (...) VALUES ($1, $2, 1, NOW(), NOW()); on an error `?`
\* returns it and the handler answers 500 "Failed to clap article".
ClapInsert ==
    \E t \in Tasks :
       /\ calls[t].pc = "insert_clap"
       /\ IF ClapsUniqueViolated(calls[t].user_id, calls[t].article_id)
          THEN /\ last' = Resp("clap", calls[t].user_id, calls[t].article_id, FALSE,
                                "Failed to clap article", 0, FALSE)
               /\ calls' = [calls EXCEPT ![t] = Idle]
               /\ UNCHANGED claps
          ELSE /\ claps' = claps \cup {<<calls[t].user_id, calls[t].article_id>>}
               /\ calls' = [calls EXCEPT ![t].is_clapped = TRUE, ![t].pc = "count_claps"]
               /\ UNCHANGED last
       /\ UNCHANGED articles
       /\ ClapFrame

\* SELECT COUNT(*)::BIGINT FROM claps WHERE article_id = $1
ClapCount ==
    \E t \in Tasks :
       /\ calls[t].pc = "count_claps"
       /\ calls' = [calls EXCEPT ![t].total_claps = ClapRows(claps, calls[t].article_id),
                                 ![t].pc = "update_count"]
       /\ UNCHANGED <<articles, claps, last>>
       /\ ClapFrame

\* UPDATE articles SET claps_count = $1 WHERE id = $2, and Ok((total, .., is_clapped)).
ClapUpdateCount ==
    \E t \in Tasks :
       /\ calls[t].pc = "update_count"
       /\ articles' = SetClapsCount(calls[t].article_id, calls[t].total_claps)
       /\ last' = Resp("clap", calls[t].user_id, calls[t].article_id, TRUE, "",
                        calls[t].total_claps, calls[t].is_clapped)
       /\ calls' = [calls EXCEPT ![t] = Idle]
       /\ UNCHANGED claps
       /\ ClapFrame

\* Two users toggle at the same time.
NextRace ==
    \/ RaceCreate
    \/ ClapBeginOwn
    \/ ClapSelect
    \/ ClapDelete
    \/ ClapInsert
    \/ ClapCount
    \/ ClapUpdateCount

SpecRace == Init /\ [][NextRace]_vars

\* One user toggles twice at the same time.
NextDouble ==
    \/ RaceCreate
    \/ ClapBeginSame
    \/ ClapSelect
    \/ ClapDelete
    \/ ClapInsert
    \/ ClapCount
    \/ ClapUpdateCount

SpecDouble == Init /\ [][NextDouble]_vars

(* ------ bookmark_article and unbookmark_article, statement by statement - *)
\* Both handlers send their statements to the pool one by one, outside any
\* transaction.
MarkFrame ==
    UNCHANGED <<nextId, claps, comments, clock, origin, saves, pubOk,
                follows, answer, users, requests, admitted>>

\* The storage layer keeps (user_id, article_id) unique in bookmarks: an INSERT
\* of a pair that is stored is refused with an error.
BookmarksUniqueViolated(user_id, article_id) == <<user_id, article_id>> \in bookmarks

\* The article the bookmarks are set on.
MarkCreate ==
    /\ UNCHANGED <<calls, follows, answer, users, requests, admitted>>
    /\ nextId = 1
    /\ create_article("u1", <<"a">>, "hi", "published")

\* Ends the request of task t with the answer resp.
MarkDone(t, resp) ==
    /\ calls' = [calls EXCEPT ![t] = Idle]
    /\ last' = resp

\* handlers::articles::bookmark_article: a request arrives at an idle task.
BookmarkBegin ==
    \E t \in Tasks, a \in DOMAIN articles, u \in Users :
       /\ calls[t] = Idle
       /\ articles[a].bookmarks_count < MaxCount
       /\ calls' = [calls EXCEPT ![t] =
              [pc |-> "check_article", article_id |-> a, user_id |-> u]]
       /\ UNCHANGED <<articles, bookmarks, last>>
       /\ MarkFrame

\* SELECT EXISTS(SELECT 1 FROM articles WHERE id = $1 AND status = 'published')
BookmarkCheckArticle ==
    \E t \in Tasks :
       /\ calls[t].pc = "check_article"
       /\ IF Exists(calls[t].article_id) /\ articles[calls[t].article_id].status = "published"
          THEN /\ calls' = [calls EXCEPT ![t].pc = "check_bookmark"]
               /\ UNCHANGED last
          ELSE MarkDone(t, Resp("bookmark", calls[t].user_id, calls[t].article_id, FALSE,
                                "Article not found", 0, FALSE))
       /\ UNCHANGED <<articles, bookmarks>>
       /\ MarkFrame

\* SELECT EXISTS(SELECT 1 FROM bookmarks WHERE user_id = $1 AND article_id = $2)
BookmarkCheckExisting ==
    \E t \in Tasks :
       /\ calls[t].pc = "check_bookmark"
       /\ IF <<calls[t].user_id, calls[t].article_id>> \in bookmarks
          THEN MarkDone(t, Resp("bookmark", calls[t].user_id, calls[t].article_id, TRUE,
                                "Article already bookmarked", 0, TRUE))
          ELSE /\ calls' = [calls EXCEPT ![t].pc = "insert_bookmark"]
               /\ UNCHANGED last
       /\ UNCHANGED <<articles, bookmarks>>
       /\ MarkFrame

\* INSERT INTO bookmarks (user_id, article_id, created_at); on an error the
\* handler answers 500 "Failed to bookmark article".
BookmarkInsert ==
    \E t \in Tasks :
       /\ calls[t].pc = "insert_bookmark"
       /\ IF BookmarksUniqueViolated(calls[t].user_id, calls[t].article_id)
          THEN /\ MarkDone(t, Resp("bookmark", calls[t].user_id, calls[t].article_id, FALSE,
                                   "Failed to bookmark article", 0, FALSE))
               /\ UNCHANGED bookmarks
          ELSE /\ bookmarks' = bookmarks \cup {<<calls[t].user_id, calls[t].article_id>>}
               /\ calls' = [calls EXCEPT ![t].pc = "raise_count"]
               /\ UNCHANGED last
       /\ UNCHANGED articles
       /\ MarkFrame

\* UPDATE articles SET bookmarks_count = bookmarks_count + 1 WHERE id = $1
BookmarkRaiseCount ==
    \E t \in Tasks :
       /\ calls[t].pc = "raise_count"
       /\ articles' = IF Exists(calls[t].article_id)
                      THEN [articles EXCEPT ![calls[t].article_id].bookmarks_count = @ + 1]
                      ELSE articles
       /\ MarkDone(t, Resp("bookmark", calls[t].user_id, calls[t].article_id, TRUE,
                           "Article bookmarked successfully", 0, TRUE))
       /\ UNCHANGED bookmarks
       /\ MarkFrame

\* handlers::articles::unbookmark_article: a request arrives at an idle task.
UnbookmarkBegin ==
    \E t \in Tasks, a \in DOMAIN articles, u \in Users :
       /\ calls[t] = Idle
       /\ calls' = [calls EXCEPT ![t] =
              [pc |-> "delete_bookmark", article_id |-> a, user_id |-> u]]
       /\ UNCHANGED <<articles, bookmarks, last>>
       /\ MarkFrame

\* DELETE FROM bookmarks WHERE user_id = $1 AND article_id = $2, and the test
\* of res.rows_affected().
UnbookmarkDelete ==
    \E t \in Tasks :
       /\ calls[t].pc = "delete_bookmark"
       /\ bookmarks' = bookmarks \ {<<calls[t].user_id, calls[t].article_id>>}
       /\ IF <<calls[t].user_id, calls[t].article_id>> \in bookmarks
          THEN /\ calls' = [calls EXCEPT ![t].pc = "lower_count"]
               /\ UNCHANGED last
          ELSE MarkDone(t, Resp("unbookmark", calls[t].user_id, calls[t].article_id, TRUE,
                                "Bookmark not found", 0, FALSE))
       /\ UNCHANGED articles
       /\ MarkFrame

\* UPDATE articles SET bookmarks_count = GREATEST(bookmarks_count - 1, 0) WHERE id = $1
UnbookmarkLowerCount ==
    \E t \in Tasks :
       /\ calls[t].pc = "lower_count"
       /\ articles' = IF Exists(calls[t].article_id)
                      THEN [articles EXCEPT ![calls[t].article_id].bookmarks_count =
                                                Greatest(@ - 1, 0)]
                      ELSE articles
       /\ MarkDone(t, Resp("unbookmark", calls[t].user_id, calls[t].article_id, TRUE,
                           "Bookmark removed successfully", 1, FALSE))
       /\ UNCHANGED bookmarks
       /\ MarkFrame

NextMark ==
    \/ MarkCreate
    \/ BookmarkBegin
    \/ BookmarkCheckArticle
    \/ BookmarkCheckExisting
    \/ BookmarkInsert
    \/ BookmarkRaiseCount
    \/ UnbookmarkBegin
    \/ UnbookmarkDelete
    \/ UnbookmarkLowerCount

SpecMark == Init /\ [][NextMark]_vars

(* --------------- create_article, statement by statement ---------------- *)
\* create_article probes the candidates with one SELECT each and then INSERTs,
\* on the pool and outside any transaction.
\* The storage layer keeps slug unique in articles: an INSERT of a slug that is
\* stored is refused with an error.
SlugUniqueViolated(slug) == \E i \in DOMAIN articles : articles[i].slug = slug

\* handlers::articles::create_article: a request arrives at an idle task.
\* generate_slug and sanitize_html read no table.
CreateBegin ==
    \E t \in Tasks, u \in Users :
       /\ calls[t] = Idle
       /\ nextId + Cardinality(InFlight) <= MaxArticles
       /\ calls' = [calls EXCEPT ![t] =
              [pc |-> "probe_slug", author_id |-> u, title |-> <<"a">>,
               base_slug |-> generate_slug(<<"a">>), slug |-> generate_slug(<<"a">>),
               counter |-> 1]]
       /\ UNCHANGED <<articles, nextId, claps, bookmarks, comments, clock, last, origin,
                      saves, pubOk, follows, answer, users, requests, admitted>>

\* ensure_unique_slug, one turn of the loop: SELECT COUNT(*) FROM articles
\* WHERE slug = $1, then break or the next candidate.
CreateProbeSlug ==
    \E t \in Tasks :
       /\ calls[t].pc = "probe_slug"
       /\ calls' = IF SlugCount(calls[t].slug) = 0
                   THEN [calls EXCEPT ![t].pc = "insert_article"]
                   ELSE [calls EXCEPT
                            ![t].slug = Suffixed(calls[t].base_slug, calls[t].counter),
                            ![t].counter = @ + 1]
       /\ UNCHANGED <<articles, nextId, claps, bookmarks, comments, clock, last, origin,
                      saves, pubOk, follows, answer, users, requests, admitted>>

\* INSERT INTO articles (...) and get_article_by_id; on an error of the INSERT
\* `?` returns it and the handler answers 500 "Failed to create article: ..".
CreateInsert ==
    \E t \in Tasks :
       /\ calls[t].pc = "insert_article"
       /\ calls' = [calls EXCEPT ![t] = Idle]
       /\ IF SlugUniqueViolated(calls[t].slug)
          THEN /\ last' = Resp("create", calls[t].author_id, MissingId, FALSE,
                                "Failed to create article", 0, FALSE)
               /\ UNCHANGED <<articles, nextId, origin, saves>>
          ELSE /\ articles' = articles @@ (nextId :>
                      NewRow(calls[t].title, "hi", sanitize_html("hi"), calls[t].author_id,
                             "draft", calls[t].slug, NULL))
               /\ nextId' = nextId + 1
               /\ origin' = origin @@ (nextId :> "create")
               /\ saves' = saves @@ (nextId :> 0)
               /\ last' = Resp("create", calls[t].author_id, nextId, TRUE, "", 0, FALSE)
       /\ UNCHANGED <<claps, bookmarks, comments, clock, pubOk, follows, answer, users, requests, admitted>>

NextMint == CreateBegin \/ CreateProbeSlug \/ CreateInsert

SpecMint == Init /\ [][NextMint]_vars

(* --------------------------- listing queries --------------------------- *)
\* Option<i64>: None is <<>>, Some(n) is <<n>>.
UnwrapOr(opt, default) == IF opt = <<>> THEN default ELSE opt[1]

Min(a, b) == IF a <= b THEN a ELSE b

\* limit.unwrap_or(20) and .min(100) of get_user_feed and get_trending_articles.
DefaultLimit == 20
MaxLimit == 100
DefaultPage == 1

\* The orders in which a SELECT may return the rows ids, before ORDER BY.
Arrangements(ids) ==
    {s \in [1..Cardinality(ids) -> ids] : \A i, j \in DOMAIN s : i # j => s[i] # s[j]}

\* LIMIT limit OFFSET offset over the ordered rows s.
Slice(s, limit, offset) == SubSeq(s, offset + 1, Min(offset + limit, Len(s)))

\* The frame of a listing query: it reads the tables and writes none.
QueryFrame ==
    UNCHANGED <<articles, nextId, claps, bookmarks, comments, clock, last, origin, saves,
                pubOk, calls, follows, users, requests, admitted>>

\* UPDATE users SET following_count = following_count + 1 WHERE id =
\* follower_id, then followers_count = followers_count + 1 WHERE id =
\* following_id.
Raised(follower_id, following_id) ==
    LET one == [users EXCEPT ![follower_id].following_count = @ + 1]
    IN  [one EXCEPT ![following_id].followers_count = @ + 1]

\* UPDATE users SET following_count = GREATEST(following_count - 1, 0) WHERE
\* id = follower_id, then the same on followers_count of following_id.
Lowered(follower_id, following_id) ==
    LET one == [users EXCEPT ![follower_id].following_count = Greatest(@ - 1, 0)]
    IN  [one EXCEPT ![following_id].followers_count = Greatest(@ - 1, 0)]

\* handlers::users::follow_user and UserService::follow_user: INSERT INTO
\* user_follows ... ON CONFLICT (follower_id, following_id) DO NOTHING, then
\* the two counts are raised, whether or not a row was inserted.
follow_user(follower_id, following_id) ==
    /\ IF follower_id = following_id
       THEN /\ last' = Resp("follow", follower_id, MissingId, FALSE,
                             "Cannot follow yourself", 0, FALSE)
            /\ UNCHANGED <<follows, users>>
       ELSE /\ follows' = follows \cup {<<follower_id, following_id>>}
            /\ users' = Raised(follower_id, following_id)
            /\ last' = Resp("follow", follower_id, MissingId, TRUE,
                             "Successfully followed user", 0, TRUE)
    /\ UNCHANGED <<articles, nextId, claps, bookmarks, comments, clock, origin, saves,
                   pubOk, calls, answer, requests, admitted>>

\* UserService::unfollow_user: DELETE FROM user_follows WHERE follower_id = $1
\* AND following_id = $2; the two counts are lowered only if a row was deleted.
unfollow_user(follower_id, following_id) ==
    LET rows_affected == IF <<follower_id, following_id>> \in follows THEN 1 ELSE 0
    IN  /\ follows' = follows \ {<<follower_id, following_id>>}
        /\ users' = IF rows_affected > 0 THEN Lowered(follower_id, following_id)
                    ELSE users
        /\ last' = Resp("unfollow", follower_id, MissingId, TRUE,
                         "Successfully unfollowed user", 0, FALSE)
        /\ UNCHANGED <<articles, nextId, claps, bookmarks, comments, clock, origin, saves,
                       pubOk, calls, answer, requests, admitted>>

\* The rows the feed query of user_id selects: articles a JOIN user_follows uf
\* ON a.author_id = uf.following_id WHERE uf.follower_id = $1 AND a.status =
\* 'published' AND a.published_at IS NOT NULL.
FeedRows(user_id) ==
    {a \in DOMAIN articles :
        /\ <<user_id, articles[a].author_id>> \in follows
        /\ articles[a].status = "published"
        /\ articles[a].published_at # NULL}

\* ORDER BY a.published_at DESC: rows of one instant come in any order.
FeedOrderings(ids) ==
    {s \in Arrangements(ids) :
        \A i, j \in DOMAIN s :
            articles[s[i]].published_at > articles[s[j]].published_at => i < j}

\* What a listing answers when PostgreSQL refuses a negative LIMIT or OFFSET.
Refused(op, user_id, page, limit, offset) ==
    [op |-> op, ok |-> FALSE, viewer |-> user_id, page |-> page, limit |-> limit,
     offset |-> offset,
     items |-> <<>>, total |-> 0]

\* A mutant of get_user_feed: the JOIN on user_follows is dropped, every
\* published article is listed.
get_user_feed_everyone(user_id, page_opt, limit_opt) ==
    LET limit  == Min(UnwrapOr(limit_opt, DefaultLimit), MaxLimit)
        page   == Greatest(UnwrapOr(page_opt, DefaultPage), 1)
        offset == (page - 1) * limit
        rows   == {a \in DOMAIN articles : articles[a].status = "published"}
    IN  /\ IF limit < 0 \/ offset < 0
           THEN answer' = Refused("feed", user_id, page, limit, offset)
           ELSE \E s \in FeedOrderings(rows) :
                   answer' = [op |-> "feed", ok |-> TRUE, viewer |-> user_id,
                              page |-> page, limit |-> limit, offset |-> offset,
                              items |-> Slice(s, limit, offset),
                              total |-> Cardinality(rows)]
        /\ QueryFrame

\* ArticleService::get_user_feed
get_user_feed(user_id, page_opt, limit_opt) ==
    LET limit  == Min(UnwrapOr(limit_opt, DefaultLimit), MaxLimit)
        page   == Greatest(UnwrapOr(page_opt, DefaultPage), 1)
        offset == (page - 1) * limit
        rows   == FeedRows(user_id)
    IN  /\ IF limit < 0 \/ offset < 0
           THEN answer' = Refused("feed", user_id, page, limit, offset)
           ELSE \E s \in FeedOrderings(rows) :
                   answer' = [op |-> "feed", ok |-> TRUE, viewer |-> user_id,
                              page |-> page, limit |-> limit, offset |-> offset,
                              items |-> Slice(s, limit, offset),
                              total |-> Cardinality(rows)]
        /\ QueryFrame

(* ----------------------------- the follow feed ------------------------- *)
FeedCreate ==
    /\ UNCHANGED <<calls, follows, answer, users, requests, admitted>>
    /\ nextId <= MaxArticles
    /\ \E u \in Users, st \in {"draft", "published"} : create_article(u, <<"a">>, "hi", st)

FeedTick ==
    /\ \E a \in DOMAIN articles : articles[a].published_at = clock
    /\ Tick

\* The user whose feed is followed through the run.
Reader == "u1"

FeedFollow ==
    \E w \in Users :
       /\ users[Reader].following_count < MaxCount
       /\ follow_user(Reader, w)

FeedUnfollow == \E w \in Users : unfollow_user(Reader, w)

\* Pages and limits the feed is asked with.
FeedPages == {<<>>, <<2>>}
FeedLimits == {<<>>, <<1>>}

FeedQuery == \E p \in FeedPages, l \in FeedLimits : get_user_feed(Reader, p, l)

NextFeed == FeedCreate \/ FeedTick \/ FeedFollow \/ FeedUnfollow \/ FeedQuery

SpecFeed == Init /\ [][NextFeed]_vars

\* Every user follows and unfollows every other, also one who is followed
\* already and one who is not followed.
FollowFollow ==
    \E u \in Users, w \in Users :
       /\ users[u].following_count < MaxCount
       /\ follow_user(u, w)

FollowUnfollow == \E u \in Users, w \in Users : unfollow_user(u, w)

\* UserService::is_following: SELECT EXISTS(SELECT 1 FROM user_follows WHERE
\* follower_id = $1 AND following_id = $2).
is_following(follower_id, following_id) ==
    /\ answer' = [op |-> "is_following", ok |-> TRUE, viewer |-> follower_id,
                  asked |-> following_id,
                  is_following |-> <<follower_id, following_id>> \in follows]
    /\ QueryFrame

FollowStatus == \E u \in Users, w \in Users : is_following(u, w)

NextFollow == FollowFollow \/ FollowUnfollow \/ FollowStatus

SpecFollow == Init /\ [][NextFollow]_vars

(* ------------------------------- trending ------------------------------ *)
\* time_window_hours.unwrap_or(168)
DefaultWindow == 168

\* The recency boost applies below this age in hours.
BoostHours == 24

\* Ten times the ORDER BY expression of the trending query at hour now; the
\* SQL value is numeric with one decimal (views_count * 0.1), so ten times it
\* is an integer: 10 * ((claps*3) + (comments*2) + (reads*1) + (views*0.1) +
\* (age < 24)::int * 10).
TrendScore(row, now) ==
    (row.claps_count * 3) * 10 + (row.comments_count * 2) * 10 + (row.reads_count * 1) * 10
    + row.views_count
    + (IF now - row.published_at < BoostHours THEN 1 ELSE 0) * 10 * 10

\* WHERE a.status = 'published' AND a.published_at IS NOT NULL AND
\* a.published_at > NOW() - INTERVAL '1 hour' * $1
TrendRows(window) ==
    {a \in DOMAIN articles :
        /\ articles[a].status = "published"
        /\ articles[a].published_at # NULL
        /\ articles[a].published_at > clock - window}

\* ORDER BY score DESC, a.published_at DESC under the score given as a
\* function of the id.
Ranked(ids, score) ==
    {s \in Arrangements(ids) :
        \A i, j \in DOMAIN s :
            (\/ score[s[i]] > score[s[j]]
             \/ /\ score[s[i]] = score[s[j]]
                /\ articles[s[i]].published_at > articles[s[j]].published_at) => i < j}

\* A mutant of get_trending_articles: the boost of the last 24 hours is left
\* out of the score.
get_trending_articles_unboosted(user_id, page_opt, limit_opt, window_opt) ==
    LET limit  == Min(UnwrapOr(limit_opt, DefaultLimit), MaxLimit)
        page   == Greatest(UnwrapOr(page_opt, DefaultPage), 1)
        offset == (page - 1) * limit
        window == UnwrapOr(window_opt, DefaultWindow)
        rows   == TrendRows(window)
        score  == [a \in rows |-> TrendScore(articles[a], articles[a].published_at + BoostHours)]
    IN  /\ IF limit < 0 \/ offset < 0
           THEN answer' = Refused("trending", user_id, page, limit, offset)
           ELSE \E s \in Ranked(rows, score) :
                   answer' = [op |-> "trending", ok |-> TRUE, viewer |-> user_id,
                              page |-> page, limit |-> limit, offset |-> offset, window |-> window,
                              items |-> Slice(s, limit, offset),
                              total |-> Cardinality(rows)]
        /\ QueryFrame

\* ArticleService::get_trending_articles
get_trending_articles(user_id, page_opt, limit_opt, window_opt) ==
    LET limit  == Min(UnwrapOr(limit_opt, DefaultLimit), MaxLimit)
        page   == Greatest(UnwrapOr(page_opt, DefaultPage), 1)
        offset == (page - 1) * limit
        window == UnwrapOr(window_opt, DefaultWindow)
        rows   == TrendRows(window)
        score  == [a \in rows |-> TrendScore(articles[a], clock)]
    IN  /\ IF limit < 0 \/ offset < 0
           THEN answer' = Refused("trending", user_id, page, limit, offset)
           ELSE \E s \in Ranked(rows, score) :
                   answer' = [op |-> "trending", ok |-> TRUE, viewer |-> user_id,
                              page |-> page, limit |-> limit, offset |-> offset, window |-> window,
                              items |-> Slice(s, limit, offset),
                              total |-> Cardinality(rows)]
        /\ QueryFrame

\* The hour at which the trending queries run, and the stored articles.
TrendNow == 200
TrendIds == {1, 2, 3}

\* Counters of the sampled rows: claps, comments, reads, views.
TrendCounters == {<<10, 5, 20, 100>>, <<10, 5, 20, 200>>, <<0, 0, 0, 1>>}

\* Hours of publication: 2, 24, 167 and 168 hours before TrendNow.
TrendHours == {TrendNow - 2, TrendNow - BoostHours, TrendNow - DefaultWindow + 1,
               TrendNow - DefaultWindow}

TrendRow(c, status, published_at) ==
    [title |-> <<"a">>, content |-> "hi", content_html |-> "hi", author_id |-> "u1",
     subtitle |-> <<>>, excerpt |-> <<"hi">>, featured_image_url |-> <<>>,
     paywall_position |-> <<>>, tags |-> <<>>, categories |-> <<>>,
     is_member_only |-> FALSE,
     status |-> status, slug |-> <<"a">>, published_at |-> published_at,
     updated_at |-> TrendNow, last_auto_save |-> TrendNow,
     auto_save_version |-> 1, is_featured |-> FALSE,
     claps_count |-> c[1], comments_count |-> c[2], bookmarks_count |-> 0,
     views_count |-> c[4], reads_count |-> c[3]]

TrendSamples ==
    {TrendRow(c, "published", h) : c \in TrendCounters, h \in TrendHours}
    \cup {TrendRow(<<0, 0, 0, 0>>, "draft", NULL)}

InitTrend ==
    /\ \E rows \in [TrendIds -> TrendSamples] :
          articles = [i \in TrendIds |->
                        [rows[i] EXCEPT !.slug = IF i = 1 THEN @ ELSE Suffixed(@, i - 1)]]
    /\ nextId = Cardinality(TrendIds) + 1
    /\ claps = {}
    /\ bookmarks = {}
    /\ comments = <<>>
    /\ clock = TrendNow
    /\ last = NoCall
    /\ origin = <<>>
    /\ saves = <<>>
    /\ pubOk = {}
    /\ calls = [t \in Tasks |-> Idle]
    /\ follows = {}
    /\ users = Counted({})
    /\ requests = [ip \in Clients |-> <<>>]
    /\ admitted = <<>>
    /\ answer = NoAnswer

TrendWindows == {<<>>, <<BoostHours>>}

TrendQuery ==
    \E p \in FeedPages, l \in FeedLimits, w \in TrendWindows :
        get_trending_articles(Reader, p, l, w)

NextTrend == TrendQuery

SpecTrend == InitTrend /\ [][NextTrend]_vars

(* -------------------------------- search ------------------------------- *)
\* PostgreSQL's text LIKE pattern over sequences of characters: % matches any
\* run of characters, _ any one character; a NULL text matches nothing.
RECURSIVE LikeSeq(_, _)
LikeSeq(text, pattern) ==
    IF pattern = <<>> THEN text = <<>>
    ELSE IF Head(pattern) = "%"
         THEN LikeSeq(text, Tail(pattern)) \/ (text # <<>> /\ LikeSeq(Tail(text), pattern))
         ELSE /\ text # <<>>
              /\ Head(pattern) = "_" \/ Head(pattern) = Head(text)
              /\ LikeSeq(Tail(text), Tail(pattern))

\* LOWER(column) LIKE pattern on a NOT NULL column
LowerLike(text, pattern) == LikeSeq([i \in 1..Len(text) |-> ToLower(text[i])], pattern)

\* LOWER(column) LIKE pattern on a nullable column, <<>> for NULL and
\* <<text>> otherwise: a NULL comparison is not true.
NullableLike(opt, pattern) == opt # <<>> /\ LowerLike(opt[1], pattern)

\* query.q.to_lowercase()
to_lowercase(q) == [i \in 1..Len(q) |-> ToLower(q[i])]

\* query.q.split_whitespace().collect::<Vec<_>>().join("%"); at is "start"
\* before the first word, "word" inside a word and "gap" after one.
RECURSIVE JoinWords(_, _)
JoinWords(q, at) ==
    IF q = <<>> THEN <<>>
    ELSE IF Head(q) = " "
         THEN JoinWords(Tail(q), IF at = "start" THEN "start" ELSE "gap")
         ELSE (IF at = "gap" THEN <<"%">> ELSE <<>>) \o <<Head(q)>> \o JoinWords(Tail(q), "word")

\* The four patterns bound to $1 .. $4.
exact_match(q)   == <<"%">> \o to_lowercase(q) \o <<"%">>
word_boundary(q) == <<"%", " ">> \o to_lowercase(q) \o <<" ", "%">>
partial_start(q) == to_lowercase(q) \o <<"%">>
multi_word(q)    == <<"%">> \o JoinWords(q, "start") \o <<"%">>

\* Table users as the search joins it: username, display_name, bio.
Profiles ==
    [u \in Users |->
        IF u = "u1"
        THEN [username |-> <<"a", "b">>, display_name |-> <<<<"A">>>>,
              bio |-> <<<<"b", " ", "a", " ", "b">>>>]
        ELSE [username |-> <<"b">>, display_name |-> <<<<"b">>>>, bio |-> <<>>]]

Weigh(matches, weight) == IF matches THEN weight ELSE 0

\* The relevance_score column of article_search.
relevance_score(row, q) ==
    LET u == Profiles[row.author_id]
    IN  Weigh(LowerLike(row.title, exact_match(q)), 15)
        + Weigh(LowerLike(row.title, word_boundary(q)), 12)
        + Weigh(LowerLike(row.title, partial_start(q)), 10)
        + Weigh(NullableLike(row.subtitle, exact_match(q)), 8)
        + Weigh(NullableLike(row.subtitle, word_boundary(q)), 6)
        + Weigh(NullableLike(row.subtitle, partial_start(q)), 5)
        + Weigh(LowerLike(row.content, exact_match(q)), 6)
        + Weigh(LowerLike(row.content, word_boundary(q)), 4)
        + Weigh(LowerLike(row.content, partial_start(q)), 2)
        + Weigh(LowerLike(u.username, exact_match(q)), 5)
        + Weigh(NullableLike(u.display_name, exact_match(q)), 5)
        + Weigh(NullableLike(u.bio, exact_match(q)), 3)
        + Weigh(LowerLike(row.title, multi_word(q)), 3)
        + Weigh(LowerLike(row.content, multi_word(q)), 2)

\* The WHERE clause of article_search.
SearchMatches(row, q) ==
    LET u == Profiles[row.author_id]
    IN  /\ row.status = "published"
        /\ \/ \E pattern \in {exact_match(q), word_boundary(q), partial_start(q)} :
                 \/ LowerLike(row.title, pattern)
                 \/ NullableLike(row.subtitle, pattern)
                 \/ LowerLike(row.content, pattern)
           \/ LowerLike(u.username, exact_match(q))
           \/ NullableLike(u.display_name, exact_match(q))
           \/ NullableLike(u.bio, exact_match(q))
           \/ LowerLike(row.content, multi_word(q))

\* SearchService::search_articles_internal, sorted by relevance (the default).
search_articles_internal(q, page_opt, limit_opt) ==
    LET limit  == UnwrapOr(limit_opt, DefaultLimit)
        offset == Greatest((UnwrapOr(page_opt, DefaultPage) - 1) * limit, 0)
        score  == [a \in DOMAIN articles |-> relevance_score(articles[a], q)]
        rows   == {a \in DOMAIN articles : SearchMatches(articles[a], q) /\ score[a] > 0}
    IN  /\ IF limit < 0
           THEN answer' = [op |-> "search", ok |-> FALSE, q |-> q, limit |-> limit,
                           offset |-> offset, items |-> <<>>, scores |-> score]
           ELSE \E s \in {r \in Arrangements(rows) :
                             \A i, j \in DOMAIN r : score[r[i]] > score[r[j]] => i < j} :
                   answer' = [op |-> "search", ok |-> TRUE, q |-> q, limit |-> limit,
                              offset |-> offset, items |-> Slice(s, limit, offset),
                              scores |-> score]
        /\ QueryFrame

\* The texts of the sampled rows and the words searched for.
SearchTexts == {<<"b">>, <<"a">>, <<"b", " ", "A", " ", "b">>}
SearchWords == {<<"a">>, <<"A">>}

SearchRow(title, subtitle, content, author_id, status) ==
    [title |-> title, subtitle |-> subtitle, content |-> content, content_html |-> content,
     excerpt |-> <<content>>, featured_image_url |-> <<>>, paywall_position |-> <<>>,
     tags |-> <<>>, categories |-> <<>>, is_member_only |-> FALSE,
     author_id |-> author_id, status |-> status, slug |-> <<"a">>,
     published_at |-> IF status = "published" THEN 0 ELSE NULL,
     updated_at |-> 0, last_auto_save |-> 0, auto_save_version |-> 1, is_featured |-> FALSE,
     claps_count |-> 0, comments_count |-> 0, bookmarks_count |-> 0,
     views_count |-> 0, reads_count |-> 0]

SearchSamples ==
    {SearchRow(t, s, c, u, "published") :
        t \in SearchTexts, s \in {<<>>, <<<<"a">>>>}, c \in {<<"b">>, <<"a">>}, u \in Users}
    \cup {SearchRow(<<"a">>, <<>>, <<"a">>, "u1", "draft")}

SearchIds == {1, 2}

InitSearch ==
    /\ \E rows \in [SearchIds -> SearchSamples] :
          articles = [i \in SearchIds |->
                        [rows[i] EXCEPT !.slug = IF i = 1 THEN @ ELSE Suffixed(@, i - 1)]]
    /\ nextId = Cardinality(SearchIds) + 1
    /\ claps = {}
    /\ bookmarks = {}
    /\ comments = <<>>
    /\ clock = 0
    /\ last = NoCall
    /\ origin = <<>>
    /\ saves = <<>>
    /\ pubOk = {}
    /\ calls = [t \in Tasks |-> Idle]
    /\ follows = {}
    /\ users = Counted({})
    /\ requests = [ip \in Clients |-> <<>>]
    /\ admitted = <<>>
    /\ answer = NoAnswer

SearchQuery ==
    \E q \in SearchWords, p \in FeedPages, l \in FeedLimits : search_articles_internal(q, p, l)

NextSearch == SearchQuery

SpecSearch == InitSearch /\ [][NextSearch]_vars

(* ------------------------------ pagination ----------------------------- *)
\* The page and limit parameters a request may carry: absent, out of range
\* below, in range, out of range above.
PagePages == {<<>>, <<0>>, <<2>>}
PageLimits == {<<>>, <<-1>>, <<1>>, <<101>>}

PageSamples ==
    {SearchRow(<<"a">>, <<>>, <<"a">>, u, st) : u \in Users, st \in {"published", "draft"}}

InitPage ==
    /\ \E rows \in [SearchIds -> PageSamples] :
          articles = [i \in SearchIds |->
                        [rows[i] EXCEPT !.slug = IF i = 1 THEN @ ELSE Suffixed(@, i - 1)]]
    /\ nextId = Cardinality(SearchIds) + 1
    /\ claps = {}
    /\ bookmarks = {}
    /\ comments = <<>>
    /\ clock = 0
    /\ last = NoCall
    /\ origin = <<>>
    /\ saves = <<>>
    /\ pubOk = {}
    /\ calls = [t \in Tasks |-> Idle]
    /\ follows \in SUBSET {<<Reader, "u2">>}
    /\ users = Counted(follows)
    /\ requests = [ip \in Clients |-> <<>>]
    /\ admitted = <<>>
    /\ answer = NoAnswer

PageFeed == \E p \in PagePages, l \in PageLimits : get_user_feed(Reader, p, l)

PageTrending == \E p \in PagePages, l \in PageLimits : get_trending_articles(Reader, p, l, <<>>)

PageSearch == \E p \in PagePages, l \in PageLimits : search_articles_internal(<<"a">>, p, l)

NextPage == PageFeed \/ PageTrending \/ PageSearch

SpecPage == InitPage /\ [][NextPage]_vars

(* ----------------------------- article views --------------------------- *)
\* EngagementService::get_user_clap_count: 1 when a clap row of the user on
\* the article is stored, 0 otherwise.
\* A mutant of get_user_clap_count: a clap of any user on the article counts.
get_user_clap_count_anyone(article_id, user_id) ==
    IF \E c \in claps : c[2] = article_id THEN 1 ELSE 0

get_user_clap_count(article_id, user_id) ==
    IF \E c \in claps : c[1] = user_id /\ c[2] = article_id THEN 1 ELSE 0

\* The user_interactions of ArticleService::get_article_response: None (<<>>)
\* without a viewer, otherwise the three flags read from claps, user_follows
\* and bookmarks.
get_article_response(article_id, user_opt) ==
    IF user_opt = <<>> THEN <<>>
    ELSE LET uid == user_opt[1]
             user_clap_count == get_user_clap_count(article_id, uid)
         IN  <<[has_clapped |-> user_clap_count > 0,
                clap_count |-> user_clap_count,
                has_bookmarked |-> <<uid, article_id>> \in bookmarks,
                is_following_author |-> <<uid, articles[article_id].author_id>> \in follows]>>

\* What a lookup of one article answers: the row found, if any, with the
\* viewer's interactions.
Looked(op, asked, user_opt, found) ==
    IF found = {}
    THEN [op |-> op, ok |-> FALSE, asked |-> asked, viewer |-> user_opt, items |-> <<>>,
          user_interactions |-> <<>>, err |-> "Article not found"]
    ELSE LET a == CHOOSE x \in found : TRUE
         IN  [op |-> op, ok |-> TRUE, asked |-> asked, viewer |-> user_opt, items |-> <<a>>,
              user_interactions |-> get_article_response(a, user_opt), err |-> ""]

\* A mutant of get_article_by_id: the row is selected by id alone.
get_article_by_id_any(article_id, user_opt) ==
    /\ answer' = Looked("article", article_id, user_opt,
                        {a \in DOMAIN articles : a = article_id})
    /\ QueryFrame

\* ArticleService::get_article_by_id: WHERE id = $1 AND (status = 'published'
\* OR author_id = $2); with no user $2 is NULL and the comparison is not true.
get_article_by_id(article_id, user_opt) ==
    /\ answer' = Looked("article", article_id, user_opt,
                        {a \in DOMAIN articles :
                            /\ a = article_id
                            /\ \/ articles[a].status = "published"
                               \/ user_opt # <<>> /\ articles[a].author_id = user_opt[1]})
    /\ QueryFrame

\* ArticleService::get_article_by_slug: WHERE slug = $1 AND (status =
\* 'published' OR author_id = $2).
get_article_by_slug(slug, user_opt) ==
    LET rows == {a \in DOMAIN articles :
                    /\ articles[a].slug = slug
                    /\ \/ articles[a].status = "published"
                       \/ user_opt # <<>> /\ articles[a].author_id = user_opt[1]}
    IN  /\ IF rows = {}
           THEN answer' = Looked("by_slug", slug, user_opt, {})
           ELSE \E a \in rows : answer' = Looked("by_slug", slug, user_opt, {a})
        /\ QueryFrame

\* ArticleService::get_articles with the author filter or with no filter (the
\* category and tag branches carry the same status = 'published' condition).
\* created_at is not a column of the model's rows: the rows come in any order.
get_articles(author_opt, page_opt, limit_opt, user_opt) ==
    LET limit  == Min(UnwrapOr(limit_opt, DefaultLimit), MaxLimit)
        page   == Greatest(UnwrapOr(page_opt, DefaultPage), 1)
        offset == (page - 1) * limit
        rows   == {a \in DOMAIN articles :
                      /\ articles[a].status = "published"
                      /\ author_opt # <<>> => articles[a].author_id = author_opt[1]}
    IN  /\ IF limit < 0 \/ offset < 0
           THEN answer' = Refused("list", user_opt, page, limit, offset)
           ELSE \E s \in Arrangements(rows) :
                   answer' = [op |-> "list", ok |-> TRUE, viewer |-> user_opt,
                              page |-> page, limit |-> limit, offset |-> offset,
                              items |-> Slice(s, limit, offset),
                              total |-> Cardinality(rows)]
        /\ QueryFrame

\* Articles in every status, and the lookups and listings asked of them by a
\* given user or by nobody.
ShownSamples ==
    {SearchRow(<<"a">>, <<>>, <<"a">>, u, st) : u \in Users, st \in Statuses}
    \cup {[SearchRow(<<"a">>, <<>>, <<"a">>, u, st) EXCEPT !.published_at = 0] :
             u \in Users, st \in {"unlisted", "archived"}}

InitShown ==
    /\ \E rows \in [SearchIds -> ShownSamples] :
          articles = [i \in SearchIds |->
                        [rows[i] EXCEPT !.slug = IF i = 1 THEN @ ELSE Suffixed(@, i - 1)]]
    /\ nextId = Cardinality(SearchIds) + 1
    /\ claps = {}
    /\ bookmarks = {}
    /\ comments = <<>>
    /\ clock = 0
    /\ last = NoCall
    /\ origin = <<>>
    /\ saves = <<>>
    /\ pubOk = {}
    /\ calls = [t \in Tasks |-> Idle]
    /\ follows = {}
    /\ users = Counted({})
    /\ requests = [ip \in Clients |-> <<>>]
    /\ admitted = <<>>
    /\ answer = NoAnswer

Viewers == {<<>>} \cup {<<u>> : u \in Users}

ShownById == \E a \in AnyId, v \in Viewers : get_article_by_id(a, v)

ShownBySlug ==
    \E slug \in {<<"a">>, Suffixed(<<"a">>, 1), <<"b">>}, v \in Viewers :
        get_article_by_slug(slug, v)

ShownList == \E author \in Viewers, v \in Viewers : get_articles(author, <<>>, <<>>, v)

ShownTrending == get_trending_articles(Reader, <<>>, <<>>, <<>>)

ShownSearch == search_articles_internal(<<"a">>, <<>>, <<>>)

NextShown == ShownById \/ ShownBySlug \/ ShownList \/ ShownTrending \/ ShownSearch

SpecShown == InitShown /\ [][NextShown]_vars

\* One article, its claps, bookmarks and the reader's follows, and the article
\* looked up by either user or by nobody.
ViewLook == \E a \in AnyId, v \in Viewers : get_article_by_id(a, v)

NextView ==
    \/ EngageCreate
    \/ EngageClap
    \/ EngageBookmark
    \/ EngageUnbookmark
    \/ FeedFollow
    \/ FeedUnfollow
    \/ ViewLook

SpecView == Init /\ [][NextView]_vars

(* ------------------- every operation on one article -------------------- *)
StatusFeature ==
    /\ UNCHANGED <<calls, follows, answer, users, requests, admitted>>
    /\ \E a \in AnyId, u \in Users : toggle_featured(a, u)

\* One reader engages with the article, at most once per counter.
StatusClap ==
    /\ UNCHANGED <<calls, follows, answer, users, requests, admitted>>
    /\ \E a \in DOMAIN articles : clap_article(a, Reader, 1)

StatusBookmark ==
    /\ UNCHANGED <<calls, follows, answer, users, requests, admitted>>
    /\ \E a \in AnyId : bookmark_article(a, Reader)

StatusComment ==
    /\ UNCHANGED <<calls, follows, answer, users, requests, admitted>>
    /\ comments = <<>>
    /\ \E a \in AnyId : create_comment(a, Reader, NULL)

StatusView ==
    /\ UNCHANGED <<calls, follows, answer, users, requests, admitted>>
    /\ \E a \in AnyId :
          /\ Exists(a) => articles[a].views_count = 0
          /\ record_view(a)

StatusRead ==
    /\ UNCHANGED <<calls, follows, answer, users, requests, admitted>>
    /\ \E a \in AnyId :
          /\ Exists(a) => articles[a].reads_count = 0
          /\ record_read(a)

\* The article is auto-saved at most once and updated with a title only.
StatusAutoSave ==
    /\ UNCHANGED <<calls, follows, answer, users, requests, admitted>>
    /\ \E a \in AnyId, u \in Users :
          /\ Exists(a) => articles[a].auto_save_version = 1
          /\ auto_save_draft(u, a, NoTitle, "hi")

StatusUpdate ==
    /\ UNCHANGED <<calls, follows, answer, users, requests, admitted>>
    /\ \E a \in AnyId, u \in Users : update_article(a, u, <<"b">>, None)

\* Time passes once.
StatusTick == clock = 0 /\ Tick

NextStatus ==
    \/ LifeCreate
    \/ StatusAutoSave
    \/ StatusUpdate
    \/ LifePublish
    \/ StatusFeature
    \/ StatusClap
    \/ StatusBookmark
    \/ StatusComment
    \/ StatusView
    \/ StatusRead
    \/ StatusTick

SpecStatus == Init /\ [][NextStatus]_vars

(* ---------------- toggle_featured, statement by statement -------------- *)
\* handlers::articles::toggle_featured: a request of an authenticated user
\* arrives at an idle task.
FeatureBegin ==
    \E t \in Tasks, a \in AnyId, u \in Users :
       /\ calls[t] = Idle
       /\ calls' = [calls EXCEPT ![t] = [pc |-> "select", article_id |-> a, user_id |-> u]]
       /\ UNCHANGED <<articles, bookmarks, last>>
       /\ MarkFrame

\* SELECT is_featured FROM articles WHERE id = $1, fetch_one: no row is an
\* error, answered 500 by the handler.
FeatureSelect ==
    \E t \in Tasks :
       /\ calls[t].pc = "select"
       /\ IF Exists(calls[t].article_id)
          THEN /\ calls' = [calls EXCEPT
                              ![t] = [pc |-> "update", article_id |-> calls[t].article_id,
                                      user_id |-> calls[t].user_id,
                                      new_status |-> ~articles[calls[t].article_id].is_featured]]
               /\ UNCHANGED last
          ELSE MarkDone(t, Resp("featured", calls[t].user_id, calls[t].article_id, FALSE,
                                "Failed to toggle featured status", 0, FALSE))
       /\ UNCHANGED <<articles, bookmarks>>
       /\ MarkFrame

\* UPDATE articles SET is_featured = $1, updated_at = $2 WHERE id = $3, then
\* Ok(new_status).
FeatureUpdate ==
    \E t \in Tasks :
       /\ calls[t].pc = "update"
       /\ articles' = [articles EXCEPT
                          ![calls[t].article_id].is_featured = calls[t].new_status,
                          ![calls[t].article_id].updated_at = clock]
       /\ MarkDone(t, Resp("featured", calls[t].user_id, calls[t].article_id, TRUE, "", 0,
                           calls[t].new_status))
       /\ UNCHANGED bookmarks
       /\ MarkFrame

NextFeature == MarkCreate \/ FeatureBegin \/ FeatureSelect \/ FeatureUpdate

SpecFeature == Init /\ [][NextFeature]_vars

(* ---------------- publish_article, statement by statement -------------- *)
\* handlers::articles::publish_article: a request of user u for article a
\* arrives at an idle task.
PublishBegin ==
    \E t \in Tasks, a \in AnyId, u \in Users :
       /\ calls[t] = Idle
       /\ calls' = [calls EXCEPT ![t] = [pc |-> "publish", article_id |-> a, user_id |-> u]]
       /\ UNCHANGED <<articles, bookmarks, last, pubOk>>
       /\ UNCHANGED <<nextId, claps, comments, clock, origin, saves, follows, answer, users, requests, admitted>>

\* A mutant of PublishUpdate: the UPDATE has no status = 'draft' condition.
PublishUpdate_any_status ==
    \E t \in Tasks :
       /\ calls[t].pc = "publish"
       /\ LET a == calls[t].article_id
              u == calls[t].user_id
              rows_affected == IF Exists(a) /\ articles[a].author_id = u THEN 1 ELSE 0
          IN  IF rows_affected = 0
              THEN /\ MarkDone(t, Resp("publish", u, a, FALSE,
                                  "Article not found, unauthorized, or already published",
                                  0, FALSE))
                   /\ UNCHANGED <<articles, pubOk>>
              ELSE /\ articles' = [articles EXCEPT ![a].status = "published",
                                                   ![a].published_at = clock,
                                                   ![a].updated_at = clock]
                   /\ pubOk' = pubOk \cup {a}
                   /\ calls' = [calls EXCEPT ![t].pc = "fetch"]
                   /\ UNCHANGED last
       /\ UNCHANGED <<nextId, claps, bookmarks, comments, clock, origin, saves, follows, answer, users, requests, admitted>>

\* UPDATE articles SET status = 'published', published_at = NOW(), updated_at =
\* NOW() WHERE id = $1 AND author_id = $2 AND status = 'draft': one statement,
\* the row is tested and written in one step; no row affected is an error.
PublishUpdate ==
    \E t \in Tasks :
       /\ calls[t].pc = "publish"
       /\ LET a == calls[t].article_id
              u == calls[t].user_id
              rows_affected == IF /\ Exists(a)
                                  /\ articles[a].author_id = u
                                  /\ articles[a].status = "draft"
                               THEN 1 ELSE 0
          IN  IF rows_affected = 0
              THEN /\ MarkDone(t, Resp("publish", u, a, FALSE,
                                  "Article not found, unauthorized, or already published",
                                  0, FALSE))
                   /\ UNCHANGED <<articles, pubOk>>
              ELSE /\ articles' = [articles EXCEPT ![a].status = "published",
                                                   ![a].published_at = clock,
                                                   ![a].updated_at = clock]
                   /\ pubOk' = pubOk \cup {a}
                   /\ calls' = [calls EXCEPT ![t].pc = "fetch"]
                   /\ UNCHANGED last
       /\ UNCHANGED <<nextId, claps, bookmarks, comments, clock, origin, saves, follows, answer, users, requests, admitted>>

\* self.get_article_by_id(article_id, Some(author_id)): the row the author may
\* see, or "Article not found".
PublishFetch ==
    \E t \in Tasks :
       /\ calls[t].pc = "fetch"
       /\ LET a == calls[t].article_id
              u == calls[t].user_id
              found == Exists(a) /\ (articles[a].status = "published" \/ articles[a].author_id = u)
          IN  MarkDone(t, Resp("publish", u, a, found,
                               IF found THEN "" ELSE "Article not found", 0, FALSE))
       /\ UNCHANGED <<articles, bookmarks, pubOk>>
       /\ UNCHANGED <<nextId, claps, comments, clock, origin, saves, follows, answer, users, requests, admitted>>

NextPublish == EngageCreate \/ Tick \/ PublishBegin \/ PublishUpdate \/ PublishFetch

SpecPublish == Init /\ [][NextPublish]_vars

(* ----------------------------- RateLimiter ----------------------------- *)
\* RateLimiter::new(max_requests, window_duration): the limiter of the model
\* admits 2 requests per window of 2 instants (the middleware builds it with
\* 100 per 60 s and 5 per 60 s).
max_requests == 2
window_duration == 2

\* The instants of the model and the number of admissions it records.
MaxInstant == 3
MaxAdmitted == 4

\* now.duration_since(timestamp): zero when timestamp is later than now.
duration_since(now, timestamp) == Greatest(now - timestamp, 0)

\* timestamps.retain(|&timestamp| now.duration_since(timestamp) < window)
Retained(timestamps, now) ==
    SelectSeq(timestamps, LAMBDA timestamp : duration_since(now, timestamp) < window_duration)

\* The frame of the rate limiter: the tables of the blog are not touched.
LimiterFrame ==
    UNCHANGED <<articles, nextId, claps, bookmarks, comments, origin, saves, pubOk,
                follows, answer, users>>

\* rate_limit_middleware calls check_rate_limit(identifier), whose first
\* statement is let now = Instant::now().
LimiterNow ==
    \E t \in Tasks, ip \in Clients :
       /\ calls[t] = Idle
       /\ Len(admitted) < MaxAdmitted
       /\ calls' = [calls EXCEPT ![t] = [pc |-> "entry", identifier |-> ip, now |-> clock]]
       /\ UNCHANGED <<clock, last, requests, admitted>>
       /\ LimiterFrame

\* The rest of check_rate_limit, under the lock self.requests.entry(identifier)
\* holds on the identifier's entry: the old instants are dropped, then the
\* call is refused if max_requests remain and recorded and admitted otherwise.
LimiterEntry ==
    \E t \in Tasks :
       /\ calls[t].pc = "entry"
       /\ LET ip    == calls[t].identifier
              now   == calls[t].now
              entry == Retained(requests[ip], now)
              let_in == Len(entry) < max_requests
          IN  /\ requests' = [requests EXCEPT
                                ![ip] = IF let_in THEN Append(entry, now) ELSE entry]
              /\ admitted' = IF let_in
                             THEN Append(admitted, [identifier |-> ip, now |-> now,
                                                    at |-> clock])
                             ELSE admitted
              /\ MarkDone(t, Resp("check_rate_limit", ip, MissingId, let_in, "",
                                  Len(entry), let_in))
       /\ UNCHANGED clock
       /\ LimiterFrame

\* The cleanup task RateLimiter::new spawns: every entry keeps the instants
\* younger than the window (an entry left empty is removed from the map).
LimiterCleanup ==
    /\ \E ip \in Clients : requests[ip] # Retained(requests[ip], clock)
    /\ requests' = [ip \in Clients |-> Retained(requests[ip], clock)]
    /\ UNCHANGED <<clock, last, calls, admitted>>
    /\ LimiterFrame

\* Time passes.
LimiterTick ==
    /\ clock < MaxInstant
    /\ clock' = clock + 1
    /\ UNCHANGED <<last, calls, requests, admitted>>
    /\ LimiterFrame

NextLimiter == LimiterNow \/ LimiterEntry \/ LimiterCleanup \/ LimiterTick

SpecLimiter == Init /\ [][NextLimiter]_vars

(* ---------------------------- comment threads -------------------------- *)
\* EngagementService::get_comments with get_comment_replies: the ids of the
\* comments of article_id with parent_id IS NULL, and under each of them the
\* comments WHERE parent_id = its id; replies of replies are not fetched.
get_comments(article_id) ==
    LET top == {c \in DOMAIN comments :
                   comments[c].article_id = article_id /\ comments[c].parent_id = NULL}
    IN  top \cup {c \in DOMAIN comments : comments[c].parent_id \in top}

\* A user comments on the article, on a stored comment or on none.
ThreadComment ==
    /\ UNCHANGED <<calls, follows, answer, users, requests, admitted>>
    /\ Len(comments) <= MaxCount
    /\ \E a \in AnyId, u \in Users, p \in {NULL} \cup DOMAIN comments :
          create_comment(a, u, p)

NextThread == EngageCreate \/ ThreadComment

SpecThread == Init /\ [][NextThread]_vars

(* --------------------------- views and reads --------------------------- *)
ViewsView ==
    /\ UNCHANGED <<calls, follows, answer, users, requests, admitted>>
    /\ \E a \in AnyId :
          /\ Exists(a) => articles[a].views_count < MaxCount
          /\ record_view(a)

ViewsRead ==
    /\ UNCHANGED <<calls, follows, answer, users, requests, admitted>>
    /\ \E a \in AnyId :
          /\ Exists(a) => articles[a].reads_count < MaxCount
          /\ record_read(a)

NextViews == EngageCreate \/ EngageClap \/ EngageBookmark \/ ViewsView \/ ViewsRead

SpecViews == Init /\ [][NextViews]_vars

(* ------------------------ claims on the lifecycle ---------------------- *)
\* C7: once publish_article has succeeded on an article, every later
\* publish_article call on it, by anyone, fails and leaves published_at as it was.
C7_PublishOnce ==
    (last.op = "publish" /\ last.pre_flag) =>
        /\ ~last.ok
        /\ Exists(last.id) => articles[last.id].published_at = last.pre_total

\* C7 witness: the author has called publish again, later than the instant of
\* the first, successful publish.
C7_Witness ==
    /\ last.op = "publish" /\ last.pre_flag
    /\ Exists(last.id)
    /\ last.user = articles[last.id].author_id
    /\ articles[last.id].published_at # NULL
    /\ clock > articles[last.id].published_at

\* C8: in every state, published_at of a stored article is non-null exactly
\* when its status is Published.
C8_PublishedAtIffPublished ==
    \A a \in DOMAIN articles :
        (articles[a].published_at # NULL) <=> (articles[a].status = "published")

\* C8 witness: a draft that was auto-saved and then published carries its
\* publication instant.
C8_Witness ==
    \E a \in DOMAIN articles :
        /\ a \in pubOk /\ saves[a] > 0
        /\ articles[a].status = "published"
        /\ articles[a].published_at > 0

\* C9: update_article, delete_article and publish_article called by a user who
\* is not the article's author fail, whatever the status, and leave the table
\* of articles (every field of the row, and the row itself) as it was.
C9_NonAuthorCannotMutate ==
    [][\A a \in DOMAIN articles : \A u \in Users \ {articles[a].author_id} :
          (\/ update_article(a, u, <<"b">>, None)
           \/ update_article(a, u, NoTitle, "<script>x</script>hi")
           \/ delete_article(a, u)
           \/ publish_article(a, u))
             => (~last'.ok /\ articles' = articles)]_vars

\* C9 witness: a user who is not the author has just been refused the deletion
\* of a published article.
C9_Witness ==
    /\ last.op = "delete" /\ ~last.ok
    /\ Exists(last.id)
    /\ articles[last.id].author_id # last.user
    /\ articles[last.id].status = "published"

\* An auto-save never lowers the version of a stored row.
VersionNeverDecreases ==
    \A a \in DOMAIN articles \cap DOMAIN articles' :
        articles'[a].auto_save_version >= articles[a].auto_save_version

\* C10: auto_save_version of a stored article is 1 + the number of auto-saves
\* accepted on it (each is one UPDATE that adds 1, so concurrent auto-saves of a
\* draft add up), and no step decreases it.
C10_AutoSaveVersion ==
    /\ [](\A a \in DOMAIN articles : articles[a].auto_save_version = 1 + saves[a])
    /\ [][VersionNeverDecreases]_vars

\* C10 witness: a draft has been auto-saved twice by its author, and the last
\* auto-save, by another user, matched no row.
C10_Witness ==
    /\ last.op = "autosave" /\ ~last.pre_flag
    /\ Exists(last.id)
    /\ saves[last.id] = 2
    /\ articles[last.id].auto_save_version = 3

\* C11: an auto-save that names a stored article which is not a draft, or is
\* owned by another user, is rejected: the articles table is as it was and the
\* caller is not told the save succeeded.
C11_AutoSaveRejected ==
    [][\A a \in DOMAIN articles : \A u \in Users :
          (/\ articles[a].author_id # u \/ articles[a].status # "draft"
           /\ auto_save_draft(u, a, NoTitle, "<script>x</script>hi"))
             => (articles' = articles /\ ~last'.ok)]_vars

\* C14: create_article inserts the article with the five counters at 0 and
\* auto_save_version = 1, with the requested status (Draft when none is
\* requested), and with published_at set, to the instant of the call, only when
\* that status is Published.
C14_CreateInitialRow ==
    [][\A u \in Users : \A st \in Statuses \cup {None} :
          (nextId' # nextId /\ create_article(u, <<"a">>, "hi", st)) =>
             /\ DOMAIN articles' = DOMAIN articles \cup {nextId}
             /\ nextId \notin DOMAIN articles
             /\ LET r == articles'[nextId]
                IN  /\ r.claps_count = 0 /\ r.comments_count = 0
                    /\ r.bookmarks_count = 0 /\ r.views_count = 0 /\ r.reads_count = 0
                    /\ r.auto_save_version = 1
                    /\ r.author_id = u
                    /\ r.status = (IF st = None THEN "draft" ELSE st)
                    /\ r.published_at = (IF r.status = "published" THEN clock ELSE NULL)]_vars

\* C14 witness: an article has just been created, later than instant 0, with
\* status Archived.
C14_Witness ==
    /\ last.op = "create" /\ last.ok
    /\ Exists(last.id)
    /\ articles[last.id].status = "archived"
    /\ articles[last.id].published_at = NULL
    /\ articles[last.id].auto_save_version = 1
    /\ clock > 0

\* What update, delete and publish tell the caller of an id that names no article.
ToldWhenMissing(op) ==
    [status |-> 404,
     error  |-> CASE op = "update"  -> "Article not found"
                  [] op = "delete"  -> "Article not found or unauthorized"
                  [] op = "publish" -> "Article not found, unauthorized, or already published"]

\* C16: what update, delete and publish tell a caller who is not the owner of a
\* stored article is what they tell the caller of an id that names no article.
C16_NotFoundAndForeignAlike ==
    (last.op \in {"update", "delete", "publish"} /\ ~last.ok) =>
        /\ ~Exists(last.id) => Told(last) = ToldWhenMissing(last.op)
        /\ (Exists(last.id) /\ articles[last.id].author_id # last.user)
              => Told(last) = ToldWhenMissing(last.op)

\* C27: the only change of status any operation makes is draft to published,
\* made by a successful publish of the author; publish on an unlisted,
\* archived or published article fails and writes nothing; and update,
\* auto-save, view, read, featured toggle, clap, bookmark and comment leave
\* status, slug and published_at of every article as they were.
C27_OnlyPublishChangesStatus ==
    [][ \A a \in DOMAIN articles \cap DOMAIN articles' :
          LET old == articles[a]
              new == articles'[a]
          IN  /\ new.status # old.status =>
                    /\ old.status = "draft" /\ new.status = "published"
                    /\ last'.op = "publish" /\ last'.ok
                    /\ last'.id = a /\ last'.user = old.author_id
              /\ (last' # last /\ last'.op = "publish" /\ last'.id = a
                    /\ old.status \in {"unlisted", "archived", "published"})
                 => ~last'.ok /\ new = old
              /\ last'.op \in {"update", "autosave", "view", "read", "featured", "clap",
                               "bookmark", "comment"}
                 => /\ new.status = old.status
                    /\ new.slug = old.slug
                    /\ new.published_at = old.published_at ]_vars

\* C27 witness: a published article, already auto-saved, updated, viewed,
\* read, featured, clapped, bookmarked and commented, was just refused a
\* second publish by its author.
C27_Witness ==
    /\ last.op = "publish" /\ ~last.ok /\ Exists(last.id)
    /\ LET r == articles[last.id]
       IN  /\ r.author_id = last.user
           /\ r.status = "published" /\ r.published_at < clock
           /\ r.auto_save_version > 1 /\ r.title = <<"b">>
           /\ r.views_count > 0 /\ r.reads_count > 0 /\ r.is_featured
           /\ r.claps_count > 0 /\ r.bookmarks_count > 0 /\ r.comments_count > 0

\* C28: an accepted auto-save of an existing draft that carries content only
\* leaves title, subtitle, excerpt, featured image, tags, categories,
\* membership flag and paywall position at their stored values.
C28_AutoSaveKeepsOmitted ==
    [][ \A a \in DOMAIN articles \cap DOMAIN articles' :
          articles'[a].auto_save_version = articles[a].auto_save_version + 1 =>
              /\ articles'[a].title = articles[a].title
              /\ articles'[a].subtitle = articles[a].subtitle
              /\ articles'[a].excerpt = articles[a].excerpt
              /\ articles'[a].featured_image_url = articles[a].featured_image_url
              /\ articles'[a].tags = articles[a].tags
              /\ articles'[a].categories = articles[a].categories
              /\ articles'[a].is_member_only = articles[a].is_member_only
              /\ articles'[a].paywall_position = articles[a].paywall_position ]_vars

\* C29: update fails with "not found" (404) when the article is absent and
\* with "unauthorized" (403) when another user owns it, and then writes no
\* field of any article; when the owner calls it, only the supplied title, or
\* the supplied content with its sanitized HTML, and updated_at change.
C29_UpdateChecksBeforeWrite ==
    [][ last'.op = "update" =>
        \A a \in AnyId, u \in Users :
            /\ \A title \in {<<"b">>}, content \in {"<script>x</script>hi"} :
                  (update_article(a, u, title, None) \/ update_article(a, u, NoTitle, content))
                  => /\ ~Exists(a) =>
                           /\ ~last'.ok /\ last'.err = "Article not found"
                           /\ HttpStatus(last') = 404
                           /\ articles' = articles
                     /\ (Exists(a) /\ articles[a].author_id # u) =>
                           /\ ~last'.ok /\ last'.err = "Unauthorized to update this article"
                           /\ HttpStatus(last') = 403
                           /\ articles' = articles
                     /\ (Exists(a) /\ articles[a].author_id = u) =>
                           /\ last'.ok
                           /\ DOMAIN articles' = DOMAIN articles
                           /\ \A b \in DOMAIN articles \ {a} : articles'[b] = articles[b]
            /\ (Exists(a) /\ articles[a].author_id = u) =>
                  /\ update_article(a, u, <<"b">>, None) =>
                        /\ articles'[a].title = <<"b">>
                        /\ articles'[a].updated_at = clock
                        /\ \A f \in DOMAIN articles[a] \ {"title", "updated_at"} :
                              articles'[a][f] = articles[a][f]
                  /\ update_article(a, u, NoTitle, "<script>x</script>hi") =>
                        /\ articles'[a].content = "<script>x</script>hi"
                        /\ articles'[a].content_html = "hi"
                        /\ articles'[a].updated_at = clock
                        /\ \A f \in DOMAIN articles[a] \ {"content", "content_html", "updated_at"} :
                              articles'[a][f] = articles[a][f] ]_vars

\* C29 witness: the owner has updated the content of an article whose title
\* an earlier update had changed, at a later instant than its creation.
C29_Witness ==
    /\ last.op = "update" /\ last.ok /\ Exists(last.id)
    /\ articles[last.id].author_id = last.user
    /\ articles[last.id].title = <<"b">>
    /\ articles[last.id].content = "<script>x</script>hi"
    /\ articles[last.id].content_html = "hi"
    /\ articles[last.id].updated_at > 0

\* C30: publish tells its caller one and the same failure whether the article
\* is absent, owned by someone else or not a draft, and delete one and the
\* same failure whether the article is absent or owned by someone else: the
\* status code and the error text do not depend on the cause.
C30_FailureCausesCollapsed ==
    [][ last'.op \in {"publish", "delete"} =>
        \A a \in AnyId, u \in Users :
            /\ (/\ publish_article(a, u)
                /\ \/ ~Exists(a)
                   \/ Exists(a) /\ articles[a].author_id # u
                   \/ Exists(a) /\ articles[a].status # "draft")
                  => Told(last') =
                        [status |-> 404,
                         error |-> "Article not found, unauthorized, or already published"]
            /\ (/\ delete_article(a, u)
                /\ \/ ~Exists(a)
                   \/ Exists(a) /\ articles[a].author_id # u)
                  => Told(last') =
                        [status |-> 404, error |-> "Article not found or unauthorized"] ]_vars

\* C30 witness: the author of an archived article has just been refused its
\* publication, after time has passed.
C30_Witness ==
    /\ last.op = "publish" /\ ~last.ok /\ Exists(last.id)
    /\ articles[last.id].author_id = last.user
    /\ articles[last.id].status = "archived"
    /\ clock > 0

(* ------------------------ claims on the counters ----------------------- *)
\* The users that hold a clap row on an article.
Clappers(a) == {u \in Users : <<u, a>> \in claps}

\* C1: after every completed clap_article, in any sequence of toggles by any
\* users on any articles, the stored claps_count of each article equals the number
\* of distinct users that hold a clap row on it (and that is the total returned).
C1_ClapsCountIsClappers ==
    /\ \A a \in DOMAIN articles : articles[a].claps_count = Cardinality(Clappers(a))
    /\ last.op = "clap" => last.total = Cardinality(Clappers(last.id))

\* C1 witness: a user has just removed their clap while the other user's remains.
C1_Witness ==
    /\ last.op = "clap" /\ ~last.flag
    /\ Cardinality(Clappers(last.id)) = 1
    /\ articles[last.id].claps_count = 1
    /\ \E a \in DOMAIN articles : a # last.id /\ Cardinality(Clappers(a)) = 2

\* C2: a clap_article(a, u) by a user with no clap on a raises claps_count by
\* exactly 1 and reports clapped; two clap_article(a, u) calls in immediate
\* succession leave claps_count and u's personal state as the first call found them.
C2_TogglePairing ==
    last.op = "clap" =>
        /\ ~last.pre_flag =>
              /\ articles[last.id].claps_count = last.pre_total + 1
              /\ last.total = last.pre_total + 1
              /\ last.flag
              /\ <<last.user, last.id>> \in claps
        /\ last.twice =>
              /\ articles[last.id].claps_count = last.first_total
              /\ (<<last.user, last.id>> \in claps) = last.first_flag
              /\ last.flag = last.first_flag

\* C2 witness: the second of two successive toggles has put back a clap that the
\* first one removed, on an article another user has clapped too.
C2_Witness ==
    /\ last.op = "clap" /\ last.twice
    /\ last.first_flag /\ last.first_total = 2
    /\ articles[last.id].claps_count = 2

\* C3: the five counters of every article are >= 0 in every state, whatever the
\* sequence of bookmark, unbookmark, clap, comment, view and read calls.
C3_CountersNonNegative ==
    \A a \in DOMAIN articles :
        /\ articles[a].claps_count >= 0
        /\ articles[a].comments_count >= 0
        /\ articles[a].bookmarks_count >= 0
        /\ articles[a].views_count >= 0
        /\ articles[a].reads_count >= 0

\* C3 witness: an unbookmark call has just found no bookmark row on a stored
\* article whose bookmarks_count is 0.
C3_Witness ==
    /\ last.op = "unbookmark" /\ last.err = "Bookmark not found"
    /\ Exists(last.id)
    /\ articles[last.id].bookmarks_count = 0
    /\ articles[last.id].comments_count > 0

\* C12: a bookmark call on an article the user has bookmarked adds no row, leaves
\* bookmarks_count as it was and reports already-bookmarked; an unbookmark call
\* lowers bookmarks_count by exactly 1 when it removed a row and leaves it as it
\* was when there was no row.
C12_BookmarkFrame ==
    [][\A a \in DOMAIN articles : \A u \in Users :
          /\ (<<u, a>> \in bookmarks /\ bookmark_article(a, u))
                => /\ bookmarks' = bookmarks
                   /\ articles' = articles
                   /\ last'.ok /\ last'.err = "Article already bookmarked"
          /\ unbookmark_article(a, u)
                => /\ <<u, a>> \notin bookmarks'
                   /\ articles'[a].bookmarks_count =
                         IF <<u, a>> \in bookmarks
                         THEN articles[a].bookmarks_count - 1
                         ELSE articles[a].bookmarks_count]_vars

\* C12 witness: a user has just bookmarked again an article that both users
\* have bookmarked.
C12_Witness ==
    /\ last.op = "bookmark" /\ last.err = "Article already bookmarked"
    /\ Exists(last.id)
    /\ articles[last.id].bookmarks_count = 2
    /\ \A u \in Users : <<u, last.id>> \in bookmarks

\* C13: the outcome of clap_article does not depend on the requested magnitude:
\* a step that is a clap call with one magnitude is also the clap call with any
\* other magnitude, so both runs end with the same clap rows, the same
\* claps_count and the same returned total and clapped state.
C13_MagnitudeIgnored ==
    [][\A a \in DOMAIN articles : \A u \in Users : \A m1, m2 \in Magnitudes :
          clap_article(a, u, m1) => clap_article(a, u, m2)]_vars

\* C13 witness: a clap call (asked with magnitude 1 or 50) has inserted the second
\* clap row of an article, and the count it returned is 2.
C13_Witness ==
    /\ last.op = "clap" /\ ~last.pre_flag /\ last.flag
    /\ last.pre_total = 1 /\ last.total = 2
    /\ Cardinality(Clappers(last.id)) = 2

\* C17: create_comment on an article id that names no article fails with
\* "Article not found" and changes nothing: no comment row is inserted and no
\* replies_count or comments_count is modified.
C17_CommentOnMissingArticle ==
    [][\A a \in AnyId \ DOMAIN articles : \A u \in Users :
       \A p \in {NULL} \cup DOMAIN comments :
          create_comment(a, u, p) =>
             /\ comments' = comments
             /\ articles' = articles
             /\ ~last'.ok /\ last'.err = "Article not found"]_vars

\* C17 witness: a comment on a missing article has just been refused while the
\* stored article has a comment a reply could name.
C17_Witness ==
    /\ last.op = "comment" /\ ~last.ok /\ ~Exists(last.id)
    /\ Len(comments) = 1
    /\ comments[1].replies_count = 0
    /\ \E a \in DOMAIN articles : articles[a].comments_count = 1

\* The comment rows written on an article, and the replies to a comment.
CommentsOn(a) == {i \in DOMAIN comments : comments[i].article_id = a}
RepliesTo(c) == {i \in DOMAIN comments : comments[i].parent_id = c}

\* C18: create_comment is atomic to an observer: in every reachable state, also
\* between two statements of a call and after a statement has failed, every
\* stored comment row is counted, once, in comments_count of its article and, for
\* a reply, in replies_count of its parent.
C18_CommentCountedWithInsert ==
    /\ \A a \in DOMAIN articles : articles[a].comments_count = Cardinality(CommentsOn(a))
    /\ \A c \in DOMAIN comments : comments[c].replies_count = Cardinality(RepliesTo(c))

\* C19: when clap_article calls of different users on one article run at the
\* same time, once all of them have completed the stored claps_count is the
\* number of clap rows of the article.
C19_CountAfterConcurrentClaps ==
    (\A t \in Tasks : calls[t] = Idle) =>
        \A a \in DOMAIN articles : articles[a].claps_count = Cardinality(Clappers(a))

\* C20: when two clap_article calls of one user on one article run at the same
\* time, the pair has at most one clap row (the storage layer's uniqueness of
\* (user_id, article_id) sees to it) and neither call returns a failure.
C20_DoubleToggleNeverFails ==
    last.op = "clap" => last.ok

\* The users that hold a bookmark row on an article.
Bookmarkers(a) == {u \in Users : <<u, a>> \in bookmarks}

\* C21: bookmark and unbookmark calls may run at the same time; in every state
\* where none is in flight, bookmarks_count of each article is the number of
\* its bookmark rows (so two bookmark calls of one user racing on one article
\* leave one row and a count raised by exactly 1).
C21_BookmarksCountedOnce ==
    (\A t \in Tasks : calls[t] = Idle) =>
        \A a \in DOMAIN articles :
            articles[a].bookmarks_count = Cardinality(Bookmarkers(a))

C32_EveryToggleFlips ==
    [][ \A t \in Tasks :
          (calls[t].pc = "update" /\ calls'[t] = Idle) =>
              /\ articles'[calls[t].article_id].is_featured
                    = ~articles[calls[t].article_id].is_featured
              /\ last'.flag = articles'[calls[t].article_id].is_featured ]_vars

\* C33: comments nest at most one level: the parent of a stored comment, when
\* it has one, is a comment of the same article that has no parent itself,
\* and get_comments of the article lists every stored comment of it.
C33_CommentsNestOneLevel ==
    /\ \A c \in DOMAIN comments :
          comments[c].parent_id # NULL =>
             /\ comments[c].parent_id \in DOMAIN comments
             /\ comments[comments[c].parent_id].parent_id = NULL
             /\ comments[comments[c].parent_id].article_id = comments[c].article_id
    /\ \A a \in DOMAIN articles :
          {c \in DOMAIN comments : comments[c].article_id = a} \subseteq get_comments(a)

(* ---------------------- claims on slug allocation ---------------------- *)
\* The k-th candidate ensure_unique_slug tries: base, base-1, base-2, ...
Candidate(base, k) == IF k = 0 THEN base ELSE Suffixed(base, k)

Created == {i \in DOMAIN articles : origin[i] = "create"}
SlugsBefore(i) == {articles[j].slug : j \in {j \in DOMAIN articles : j < i}}
\* The articles minted by create_article with the title of article i, up to i.
SameTitleUpTo(i) == {j \in Created : j <= i /\ articles[j].title = articles[i].title}

\* ^[a-z0-9]+(-[a-z0-9]+)*$
MatchesSlugPattern(s) ==
    /\ s # <<>>
    /\ \A i \in 1..Len(s) : IsAsciiLowerOrDigit(s[i]) \/ s[i] = "-"
    /\ s[1] # "-" /\ s[Len(s)] # "-"
    /\ \A i \in 1..(Len(s) - 1) : ~(s[i] = "-" /\ s[i + 1] = "-")

\* C4: in every state reached by create and auto-save-without-id calls, no two
\* stored articles have the same slug.
C4_SlugsUnique ==
    \A i, j \in DOMAIN articles : i # j => articles[i].slug # articles[j].slug

\* C4 witness: three rows are stored and two of them asked for the same base slug.
C4_Witness ==
    /\ Cardinality(DOMAIN articles) = 3
    /\ \E i, j \in Created : i # j /\ articles[i].title = articles[j].title
    /\ \E i, j \in DOMAIN articles : i # j /\ origin[i] = "autosave" /\ origin[j] = "create"
                                      /\ articles[j].title = <<"D", "r", "a", "f", "t">>

\* C5 as stated: of the articles created with one title, the first holds the base
\* slug, the second base-1 and the third base-2.
C5_Original ==
    \A i \in Created :
        LET rank == Cardinality(SameTitleUpTo(i))
        IN  rank <= 3 =>
              articles[i].slug = Candidate(generate_slug(articles[i].title), rank - 1)

\* The slugs base, base-1, base-2 of article i's title are held only by articles
\* created with that very title.
GroupIsOwn(i) ==
    LET base == generate_slug(articles[i].title)
    IN  \A j \in DOMAIN articles :
          articles[j].slug \in {Candidate(base, k) : k \in 0..2}
             => j \in Created /\ articles[j].title = articles[i].title

\* C5 amended: every create receives the first candidate, in the order base,
\* base-1, base-2, ..., that no stored article held at that time; when no
\* article of another title (or auto-saved draft) holds base, base-1 or base-2,
\* the first, second and third article of a title receive base, base-1, base-2.
C5_FirstFreeCandidate ==
    \A i \in Created :
        LET base == generate_slug(articles[i].title)
            rank == Cardinality(SameTitleUpTo(i))
        IN  /\ \E k \in 0..(i - 1) :
                  /\ articles[i].slug = Candidate(base, k)
                  /\ \A m \in 0..(k - 1) : Candidate(base, m) \in SlugsBefore(i)
                  /\ Candidate(base, k) \notin SlugsBefore(i)
            /\ (GroupIsOwn(i) /\ rank <= 3) => articles[i].slug = Candidate(base, rank - 1)

\* C5 witness: three articles of one title hold base, base-1 and base-2.
C5_Witness ==
    \E i \in Created :
        /\ Cardinality(SameTitleUpTo(i)) = 3
        /\ GroupIsOwn(i)
        /\ articles[i].slug = Suffixed(generate_slug(articles[i].title), 2)

\* C6 as stated: the slug create allocates is non-empty and matches
\* ^[a-z0-9]+(-[a-z0-9]+)*$, whatever the title.
C6_SlugWellFormed ==
    \A i \in Created : MatchesSlugPattern(articles[i].slug)

\* C15: a create request that violates a field bound (here: a title shorter than
\* 1 character) is rejected with a validation failure before any row is
\* inserted: the stored articles are as they were.
C15_InvalidCreateRejected ==
    [][\A t \in SlugTitles :
          (~TitleValid(t) /\ create_article("u1", t, "hi", None))
             => (articles' = articles /\ ~last'.ok)]_vars

\* C22: when create calls with one title run at the same time and pick the same
\* candidate slug, both succeed, with distinct slugs: the conflict on the slug is
\* never returned to a caller as an error.
C22_ConcurrentCreatesSucceed ==
    /\ last.op = "create" => last.ok
    /\ \A i, j \in DOMAIN articles : articles[i].slug = articles[j].slug => i = j

(* ------------------------ claims on the listings ----------------------- *)
\* C23: a feed answer lists exactly the articles whose author the viewer
\* follows, whose status is Published and whose published_at is set, newest
\* published_at first: no other article appears, none appears twice, and the
\* page holds every such article that the limit and offset leave room for.
C23_FeedOfFollowedAuthors ==
    [][ (answer' # answer /\ answer'.op = "feed" /\ answer'.ok) =>
        LET items  == answer'.items
            viewer == answer'.viewer
            wanted == {a \in DOMAIN articles :
                          /\ <<viewer, articles[a].author_id>> \in follows
                          /\ articles[a].status = "published"
                          /\ articles[a].published_at # NULL}
            room   == Greatest(Cardinality(wanted) - answer'.offset, 0)
        IN  /\ \A i \in DOMAIN items : items[i] \in wanted
            /\ \A i, j \in DOMAIN items : i # j => items[i] # items[j]
            /\ \A i, j \in DOMAIN items :
                   i < j => articles[items[i]].published_at >= articles[items[j]].published_at
            /\ Len(items) = Min(answer'.limit, room)
            /\ answer'.total = Cardinality(wanted) ]_vars

\* C23 witness: two followed articles published at different instants were
\* answered, newest first, while a published article of an author the viewer
\* does not follow exists.
C23_Witness ==
    /\ answer.op = "feed" /\ answer.ok
    /\ Len(answer.items) = 2
    /\ \E a \in DOMAIN articles :
          /\ articles[a].status = "published"
          /\ <<answer.viewer, articles[a].author_id>> \notin follows
    /\ \A i \in DOMAIN answer.items :
          /\ answer.items[i] \in DOMAIN articles
          /\ <<answer.viewer, articles[answer.items[i]].author_id>> \in follows
    /\ articles[answer.items[1]].published_at > articles[answer.items[2]].published_at

\* C24: a trending answer lists only Published articles published within the
\* trailing window, 168 hours when none is given, ordered by 3*claps +
\* 2*comments + reads + 0.1*views + 10 for an article younger than 24 hours,
\* highest first and, at equal score, latest published_at first; claps 10,
\* comments 5, reads 20, views 100 at two hours of age score 80.  Scores are
\* written in tenths.
C24_TrendingByScore ==
    [][ (answer' # answer /\ answer'.op = "trending" /\ answer'.ok) =>
        LET items    == answer'.items
            score(a) == 30 * articles[a].claps_count + 20 * articles[a].comments_count
                        + 10 * articles[a].reads_count + articles[a].views_count
                        + (IF clock - articles[a].published_at < 24 THEN 100 ELSE 0)
            wanted   == {a \in DOMAIN articles :
                            /\ articles[a].status = "published"
                            /\ articles[a].published_at # NULL
                            /\ clock - articles[a].published_at < answer'.window}
            room     == Greatest(Cardinality(wanted) - answer'.offset, 0)
        IN  /\ \A w \in TrendWindows : get_trending_articles(Reader, <<>>, <<>>, w) =>
                   answer'.window = IF w = <<>> THEN 168 ELSE w[1]
            /\ \A i \in DOMAIN items : items[i] \in wanted
            /\ \A i, j \in DOMAIN items : i # j => items[i] # items[j]
            /\ \A i, j \in DOMAIN items :
                   i < j => \/ score(items[i]) > score(items[j])
                            \/ /\ score(items[i]) = score(items[j])
                               /\ articles[items[i]].published_at
                                      >= articles[items[j]].published_at
            /\ Len(items) = Min(answer'.limit, room)
            /\ \A a \in wanted :
                   (/\ articles[a].claps_count = 10 /\ articles[a].comments_count = 5
                    /\ articles[a].reads_count = 20 /\ articles[a].views_count = 100
                    /\ clock - articles[a].published_at = 2)
                   => TrendScore(articles[a], clock) = 800 ]_vars

\* C24 witness: under the default window the article of the example (score
\* 80) is answered before an older article of the same score, while a
\* published article outside the window is left out.
C24_Witness ==
    /\ answer.op = "trending" /\ answer.ok /\ answer.window = DefaultWindow
    /\ Len(answer.items) = 2
    /\ LET first == articles[answer.items[1]]
           second == articles[answer.items[2]]
       IN  /\ first.claps_count = 10 /\ first.comments_count = 5
           /\ first.reads_count = 20 /\ first.views_count = 100
           /\ clock - first.published_at = 2
           /\ TrendScore(second, clock) = TrendScore(first, clock)
           /\ second.published_at < first.published_at
    /\ \E a \in DOMAIN articles :
          /\ articles[a].status = "published"
          /\ clock - articles[a].published_at >= DefaultWindow

\* C26: in a relevance-ordered search for a single word, of two published
\* articles of which only one contains the word in its title, the one whose
\* title contains it has the strictly higher relevance score, whatever the
\* other matches in subtitle, content and author fields.
C26_TitleMatchOutranks ==
    (answer.op = "search" /\ answer.ok) =>
        LET word == to_lowercase(answer.q)
            InTitle(a) ==
                LET title == to_lowercase(articles[a].title)
                IN  \E i \in 1..Len(title) :
                       /\ i + Len(word) - 1 <= Len(title)
                       /\ SubSeq(title, i, i + Len(word) - 1) = word
        IN  \A a, b \in DOMAIN articles :
               (/\ articles[a].status = "published" /\ articles[b].status = "published"
                /\ InTitle(a) /\ ~InTitle(b))
               => answer.scores[a] > answer.scores[b]

\* C25: whatever page and limit are requested of feed, trending or search,
\* the limit used is at most 100, the page used by feed and trending is at
\* least 1, the offset is not negative and no more than 100 items are
\* answered.
C25_PagingClamped ==
    answer.op \in {"feed", "trending", "search"} =>
        /\ answer.limit <= 100
        /\ answer.offset >= 0
        /\ answer.op # "search" => answer.page >= 1
        /\ Len(answer.items) <= 100

(* ------------------------ claims on the article view ------------------- *)

\* C34: the view of an article assembled for a viewer carries hasClapped
\* exactly when a clap row (viewer, article) exists, hasBookmarked exactly when
\* a bookmark row (viewer, article) exists and isFollowingAuthor exactly when
\* the follow edge (viewer, author) exists at that time; with no viewer it
\* carries no personalization at all.
C34_ViewFlagsMirrorTheRows ==
    [][(answer' # answer /\ answer'.op = "article" /\ answer'.ok) =>
          LET a  == answer'.items[1]
              v  == answer'.viewer
              ui == answer'.user_interactions
          IN  IF v = <<>>
              THEN ui = <<>>
              ELSE /\ ui # <<>>
                   /\ ui[1].has_clapped <=> (\E c \in claps : c[1] = v[1] /\ c[2] = a)
                   /\ ui[1].has_bookmarked <=> (<<v[1], a>> \in bookmarks)
                   /\ ui[1].is_following_author <=>
                          (<<v[1], articles[a].author_id>> \in follows)]_vars

\* A viewer who clapped, bookmarked and follows the author was shown the
\* article with the three flags set.
C34_Witness ==
    /\ answer.op = "article"
    /\ answer.ok
    /\ answer.user_interactions # <<>>
    /\ answer.user_interactions[1].has_clapped
    /\ answer.user_interactions[1].has_bookmarked
    /\ answer.user_interactions[1].is_following_author
    /\ \E c \in claps : c[1] # answer.viewer[1]

\* C35: an article that is not Published (Draft, Unlisted, Archived) is never
\* returned to anyone but its author: the lookups by id and by slug answer
\* "Article not found" for it to other users and to callers without a user,
\* and get_articles, trending and search never list it.
C35_UnpublishedOnlyForTheAuthor ==
    LET Hidden(a) == articles[a].status # "published"
        Owner(a)  == answer.viewer # <<>> /\ answer.viewer[1] = articles[a].author_id
    IN  /\ (answer.op \in {"article", "by_slug"} /\ answer.ok) =>
               \A i \in DOMAIN answer.items :
                   Hidden(answer.items[i]) => Owner(answer.items[i])
        /\ answer.op = "article" =>
               \A a \in DOMAIN articles :
                   (a = answer.asked /\ Hidden(a) /\ ~Owner(a)) =>
                       ~answer.ok /\ answer.err = "Article not found"
        /\ answer.op = "by_slug" =>
               ((\A a \in DOMAIN articles :
                     articles[a].slug = answer.asked => Hidden(a) /\ ~Owner(a)) =>
                    ~answer.ok /\ answer.err = "Article not found")
        /\ answer.op \in {"list", "trending", "search"} =>
               \A i \in DOMAIN answer.items : ~Hidden(answer.items[i])

\* Another user asked by id for a stored article that is not published and was
\* answered not-found, while a published article is stored beside it.
C35_Witness ==
    /\ answer.op = "article"
    /\ ~answer.ok
    /\ answer.viewer # <<>>
    /\ answer.asked \in DOMAIN articles
    /\ articles[answer.asked].status \in {"draft", "unlisted", "archived"}
    /\ articles[answer.asked].author_id # answer.viewer[1]
    /\ \E a \in DOMAIN articles : articles[a].status = "published"

(* ------------------------ claims on concurrent publishing -------------- *)

\* C36: when several publish calls of the author run concurrently on the same
\* Draft, exactly one of them succeeds and all the others fail, and
\* published_at is written exactly once: the UPDATE of a call succeeds exactly
\* when it finds the author's article a draft, and then no earlier call had
\* published it; every other call is answered the error with the article
\* untouched, and a published_at once written is never written again.
C36_OnePublishWins ==
    [][(calls' # calls) =>
          /\ \A t \in Tasks :
                (calls[t].pc = "publish" /\ calls'[t] # calls[t]) =>
                    LET a == calls[t].article_id
                    IN  IF /\ Exists(a)
                           /\ articles[a].author_id = calls[t].user_id
                           /\ articles[a].status = "draft"
                        THEN /\ a \notin pubOk
                             /\ articles[a].published_at = NULL
                             /\ articles'[a].status = "published"
                             /\ articles'[a].published_at = clock
                             /\ a \in pubOk'
                             /\ calls'[t].pc = "fetch"
                        ELSE /\ articles' = articles
                             /\ pubOk' = pubOk
                             /\ calls'[t] = Idle
                             /\ ~last'.ok
                             /\ last'.err =
                                  "Article not found, unauthorized, or already published"
          /\ \A t \in Tasks :
                (calls[t].pc = "fetch" /\ calls'[t] # calls[t]) =>
                    last'.ok /\ last'.op = "publish" /\ last'.id = calls[t].article_id
          /\ \A a \in DOMAIN articles :
                articles[a].published_at # NULL =>
                    articles'[a].published_at = articles[a].published_at]_vars

\* Two publish calls of the author ran on the same draft at once: one has
\* written the row and has not answered yet, the other was answered the error
\* at a later hour, and published_at is the hour of the first.
C36_Witness ==
    /\ last.op = "publish"
    /\ ~last.ok
    /\ Exists(last.id)
    /\ articles[last.id].author_id = last.user
    /\ \E t \in Tasks :
          /\ calls[t].pc = "fetch"
          /\ calls[t].article_id = last.id
          /\ calls[t].user_id = last.user
    /\ articles[last.id].published_at < clock

(* ------------------------ claims on the follow counts ------------------ *)

\* C37: after any sequence of follow_user and unfollow_user calls, each user's
\* followers_count is the number of follow edges pointing at them and their
\* following_count the number of follow edges leaving them, and neither count
\* is negative.
C37_CountsMatchTheEdges ==
    \A u \in Users :
        /\ users[u].followers_count = Cardinality({e \in follows : e[2] = u})
        /\ users[u].following_count = Cardinality({e \in follows : e[1] = u})
        /\ users[u].followers_count >= 0
        /\ users[u].following_count >= 0

(* ------------------------ claims on the rate limiter ------------------- *)

\* The calls of identifier ip that were admitted with their instant now in the
\* window of length window_duration that starts at instant w.
AdmittedIn(ip, w) ==
    {i \in DOMAIN admitted :
        /\ admitted[i].identifier = ip
        /\ w <= admitted[i].now
        /\ admitted[i].now < w + window_duration}

\* C38: for every identifier and every time window of length window_duration,
\* check_rate_limit returns true for at most max_requests calls, also when
\* calls for the same identifier arrive concurrently; a refused call is not
\* recorded, so the client is admitted again once its oldest recorded
\* admissions are older than window_duration.
C38_AtMostMaxPerWindow ==
    /\ \A ip \in Clients, w \in 0..MaxInstant :
          Cardinality(AdmittedIn(ip, w)) <= max_requests
    /\ (last.op = "check_rate_limit" /\ ~last.ok) =>
          Len(requests[last.user]) <= max_requests

====
